---- MODULE Spec2Model ----
(***************************************************************************)
(* A model of dynamo-orm: the schema validator, the default filler, the    *)
(* outbound/inbound value conversion and the DynamoORM access layer, for   *)
(* both classes of the repository: the single-file class of                *)
(* src/src/index.ts and the refactored class of src/unnamed/part_000       *)
(* (the class the tests import as "../src/orm").                           *)
(***************************************************************************)
EXTENDS Integers, Sequences, FiniteSets, TLC

VARIABLES schema, config, calls, clock, data, thrown, wire, native, compiled,
          position, invoked, heap

vars == <<schema, config, calls, clock, data, thrown, wire, native, compiled,
          position, invoked, heap>>

(***************************************************************************)
(* Bounds of the model                                                     *)
(***************************************************************************)
\* wire numbers 0..MaxNum (and their halves) are parsed back
MaxNum == 40
\* the default generators are invoked at most MaxClock times in a behaviour
MaxClock == 2
\* a batch has at most MaxOps entries
MaxOps == 2

(***************************************************************************)
(* JavaScript values.  A number is v, or v + 0.5 when half is set.         *)
(***************************************************************************)
undefined == [k |-> "undefined"]
null == [k |-> "null"]
Str(s) == [k |-> "string", v |-> s]
Num(n) == [k |-> "number", v |-> n, half |-> FALSE]
Half(n) == [k |-> "number", v |-> n, half |-> TRUE]
NaN == [k |-> "NaN"]
Bool(b) == [k |-> "boolean", v |-> b]
Date(t) == [k |-> "Date", v |-> t]
InvalidDate == [k |-> "InvalidDate"]
Arr(s) == [k |-> "Array", v |-> s]
Obj(pairs) == [k |-> "Object", v |-> pairs]
SetOf(s) == [k |-> "Set", v |-> s]
Fn(id) == [k |-> "function", v |-> id]
RegExp(matching) == [k |-> "RegExp", v |-> matching]

\* typeof value
typeof(value) ==
  CASE value.k = "undefined" -> "undefined"
    [] value.k \in {"number", "NaN"} -> "number"
    [] value.k = "string" -> "string"
    [] value.k = "boolean" -> "boolean"
    [] value.k = "function" -> "function"
    [] OTHER -> "object"

\* the truthiness JavaScript gives a value in `a && b` and `if (a)`
Truthy(value) ==
  CASE value.k \in {"undefined", "null", "NaN"} -> FALSE
    [] value.k = "boolean" -> value.v
    [] value.k = "number" -> value.v # 0 \/ value.half
    [] value.k = "string" -> value.v # ""
    [] OTHER -> TRUE

\* numbers are compared on twice their value
NumKey(n) == 2 * n.v + (IF n.half THEN 1 ELSE 0)

\* `${n}` of a number
NumStr(n) == IF n.half THEN ToString(n.v) \o ".5" ELSE ToString(n.v)

(***************************************************************************)
(* A JavaScript object is the sequence of its own properties in insertion  *)
(* order, each a [key, val] pair; keys are unique.                         *)
(***************************************************************************)
Keys(o) == {o[i].key : i \in 1..Len(o)}

hasOwnProperty(o, key) == key \in Keys(o)

\* o[key]: undefined for a missing property
Get(o, key) ==
  IF key \in Keys(o)
  THEN o[CHOOSE i \in 1..Len(o) : o[i].key = key].val
  ELSE undefined

\* o[key] = val: in place for an existing property, appended otherwise
Put(o, key, val) ==
  IF key \in Keys(o)
  THEN [i \in 1..Len(o) |-> IF o[i].key = key THEN [key |-> key, val |-> val] ELSE o[i]]
  ELSE Append(o, [key |-> key, val |-> val])

(***************************************************************************)
(* Schema fields.  A property a field does not set reads as undefined.     *)
(***************************************************************************)
NoOptions ==
  [required |-> undefined, default |-> undefined, validate |-> undefined,
   minLength |-> undefined, maxLength |-> undefined, pattern |-> undefined,
   min |-> undefined, max |-> undefined, integer |-> undefined,
   items |-> undefined, properties |-> undefined, itemType |-> undefined]

field_string(options) == [type |-> "string"] @@ options
field_number(options) == [type |-> "number"] @@ options
field_boolean(options) == [type |-> "boolean"] @@ options
field_date(options) == [type |-> "date"] @@ options
field_array(options) == [type |-> "array"] @@ options
field_object(options) == [type |-> "object"] @@ options
field_stringSet(options) == [type |-> "set"] @@ [options EXCEPT !.itemType = Str("string")]
field_numberSet(options) == [type |-> "set"] @@ [options EXCEPT !.itemType = Str("number")]

\* a schema: its fields in iteration (insertion) order
SchemaNames(s) == {s[i].name : i \in 1..Len(s)}

SchemaField(s, fieldName) == s[CHOOSE i \in 1..Len(s) : s[i].name = fieldName].def

\* the caller-supplied `validate` functions of the schemas below
Invoke(fn, value) ==
  CASE fn.v = "hasAt" -> IF value \in {Str("a@b"), Str("jo@x")} THEN Bool(TRUE) ELSE Str("Email must contain @")
    [] fn.v = "isAdult" -> Bool(value.k = "number" /\ NumKey(value) >= 36)
    [] OTHER -> Bool(TRUE)

(***************************************************************************)
(* Validation                                                               *)
(***************************************************************************)
NoError == [name |-> "none"]

\* new ValidationError(message): the optional `field` argument is never passed
ValidationError(message) ==
  [name |-> "ValidationError", message |-> message, field |-> undefined]

\* the switch on field.type: the kind check and the kind's constraints
validateType(value, field, fieldName) ==
  CASE field.type = "string" ->
         IF typeof(value) # "string"
         THEN ValidationError("Field '" \o fieldName \o "' must be a string")
         ELSE IF Truthy(field.minLength) /\ 2 * Len(value.v) < NumKey(field.minLength)
         THEN ValidationError("Field '" \o fieldName \o "' must be at least "
                              \o NumStr(field.minLength) \o " characters")
         ELSE IF Truthy(field.maxLength) /\ 2 * Len(value.v) > NumKey(field.maxLength)
         THEN ValidationError("Field '" \o fieldName \o "' must be at most "
                              \o NumStr(field.maxLength) \o " characters")
         ELSE IF Truthy(field.pattern) /\ value.v \notin field.pattern.v
         THEN ValidationError("Field '" \o fieldName \o "' does not match required pattern")
         ELSE NoError
    [] field.type = "number" ->
         IF typeof(value) # "number" \/ value = NaN
         THEN ValidationError("Field '" \o fieldName \o "' must be a valid number")
         ELSE IF Truthy(field.integer) /\ value.half
         THEN ValidationError("Field '" \o fieldName \o "' must be an integer")
         ELSE IF field.min # undefined /\ NumKey(value) < NumKey(field.min)
         THEN ValidationError("Field '" \o fieldName \o "' must be at least "
                              \o NumStr(field.min))
         ELSE IF field.max # undefined /\ NumKey(value) > NumKey(field.max)
         THEN ValidationError("Field '" \o fieldName \o "' must be at most "
                              \o NumStr(field.max))
         ELSE NoError
    [] field.type = "boolean" ->
         IF typeof(value) # "boolean"
         THEN ValidationError("Field '" \o fieldName \o "' must be a boolean")
         ELSE NoError
    [] field.type = "date" ->
         IF value.k # "Date"
         THEN ValidationError("Field '" \o fieldName \o "' must be a valid Date")
         ELSE NoError
    [] field.type = "array" ->
         IF value.k # "Array"
         THEN ValidationError("Field '" \o fieldName \o "' must be an array")
         ELSE NoError
    [] field.type = "object" ->
         IF typeof(value) # "object" \/ value.k = "Array"
         THEN ValidationError("Field '" \o fieldName \o "' must be an object")
         ELSE NoError
    [] field.type = "set" ->
         IF value.k # "Set"
         THEN ValidationError("Field '" \o fieldName \o "' must be a Set")
         ELSE NoError
    [] OTHER -> NoError

\* the custom `validate` function of a field, run after the switch
validateCustom(value, field, fieldName) ==
  IF Truthy(field.validate)
  THEN LET result == Invoke(field.validate, value)
       IN  IF result # Bool(TRUE)
           THEN ValidationError(IF typeof(result) = "string"
                                THEN result.v
                                ELSE "Field '" \o fieldName \o "' failed validation")
           ELSE NoError
  ELSE NoError

\* validateField below its required check
validateField_skipRequired(value, field, fieldName) ==
  IF value = undefined \/ value = null
  THEN NoError
  ELSE LET e == validateType(value, field, fieldName)
       IN  IF e # NoError THEN e ELSE validateCustom(value, field, fieldName)

\* a required check whose message names the field's type, not the field
validateField_wrongName(value, field, fieldName) ==
  IF Truthy(field.required) /\ (value = undefined \/ value = null)
  THEN ValidationError("Field '" \o field.type \o "' is required")
  ELSE validateField_skipRequired(value, field, fieldName)

\* a validateField that returns early for undefined only, and checks null
validateField_nullChecked(value, field, fieldName) ==
  IF Truthy(field.required) /\ (value = undefined \/ value = null)
  THEN ValidationError("Field '" \o fieldName \o "' is required")
  ELSE IF value = undefined
  THEN NoError
  ELSE LET e == validateType(value, field, fieldName)
       IN  IF e # NoError THEN e ELSE validateCustom(value, field, fieldName)

\* validateField: the error it throws, or NoError when it returns
validateField(value, field, fieldName) ==
  IF Truthy(field.required) /\ (value = undefined \/ value = null)
  THEN ValidationError("Field '" \o fieldName \o "' is required")
  ELSE IF value = undefined \/ value = null
  THEN NoError
  ELSE LET e == validateType(value, field, fieldName)
       IN  IF e # NoError THEN e ELSE validateCustom(value, field, fieldName)

RECURSIVE validateFrom(_, _, _)
validateFrom(record, s, i) ==
  IF i > Len(s)
  THEN NoError
  ELSE LET e == validateField(Get(record, s[i].name), s[i].def, s[i].name)
       IN  IF e # NoError THEN e ELSE validateFrom(record, s, i + 1)

\* validateSchema: the first error in schema iteration order, or NoError
validateSchema(record, s) == validateFrom(record, s, 1)

(***************************************************************************)
(* Errors and thrown values.  A conversion that throws yields Thrown(e).   *)
(***************************************************************************)
Error(message) == [name |-> "Error", message |-> message]
RangeError(message) == [name |-> "RangeError", message |-> message]

Thrown(e) == [k |-> "throw", v |-> e]

\* the first Thrown element of a sequence of results, or [k |-> "none"]
FirstThrown(results) ==
  LET bad == SelectSeq(results, LAMBDA r : r.k = "throw")
  IN  IF Len(bad) = 0 THEN [k |-> "none"] ELSE bad[1]

\* F(x) with x evaluated once
With(x, F(_)) == CHOOSE y \in {F(v) : v \in {x}} : TRUE

\* Array.prototype.map: the sequence of F(m) for the members m of seq
Map(seq, F(_)) == [i \in 1..Len(seq) |-> F(seq[i])] \o <<>>

\* Date.prototype.toISOString, for the instants 0..9 ms of the model's clock
toISOString(d) ==
  IF d.k = "InvalidDate"
  THEN Thrown(RangeError("Invalid time value"))
  ELSE Str("1970-01-01T00:00:00.00" \o ToString(d.v) \o "Z")

(***************************************************************************)
(* Outbound conversion                                                     *)
(***************************************************************************)
\* preprocessForMarshall, the same function in both classes: Sets become
\* arrays, Dates ISO strings, arrays and plain objects are walked.
RECURSIVE preprocessForMarshall(_)
preprocessForMarshall(item) ==
  CASE item.k = "Set" -> Arr(item.v)
    [] item.k \in {"Date", "InvalidDate"} -> toISOString(item)
    [] item.k = "Array" ->
         With(Map(item.v, preprocessForMarshall),
              LAMBDA r : With(FirstThrown(r),
                              LAMBDA t : IF t.k = "throw" THEN t ELSE Arr(r)))
    [] item.k = "Object" ->
         With(Map(item.v, LAMBDA m : With(preprocessForMarshall(m.val),
                                          LAMBDA p : IF p.k = "throw" THEN p
                                                     ELSE [key |-> m.key, val |-> p, k |-> "pair"])),
              LAMBDA r : With(FirstThrown(r),
                              LAMBDA t : IF t.k = "throw" THEN t
                                         ELSE Obj(Map(r, LAMBDA m : [key |-> m.key, val |-> m.val]))))
    [] OTHER -> item

\* convertToAttr of @aws-sdk/util-dynamodb: the tagged attribute value of a
\* native value, as [k |-> "attr", v |-> it], or Thrown.  Functions and,
\* under removeUndefinedValues, undefined members are left out of maps and
\* lists.
RECURSIVE convertToAttr(_, _)
convertToAttr(value, removeUndefinedValues) ==
  LET keeps(val) == /\ typeof(val) # "function"
                    /\ (val # undefined \/ ~removeUndefinedValues)
      attr(a) == [k |-> "attr", v |-> a]
  IN
  CASE value.k = "undefined" ->
         Thrown(Error("Pass options.removeUndefinedValues=true to remove undefined values from map/array/set."))
    [] value.k = "null" -> attr([NULL |-> TRUE])
    [] value.k = "Array" ->
         With(Map(SelectSeq(value.v, keeps),
                  LAMBDA m : convertToAttr(m, removeUndefinedValues)),
              LAMBDA r : With(FirstThrown(r),
                              LAMBDA t : IF t.k = "throw" THEN t
                                         ELSE attr([L |-> Map(r, LAMBDA a : a.v)])))
    [] value.k = "Object" ->
         With(Map(SelectSeq(value.v, LAMBDA m : keeps(m.val)),
                  LAMBDA m : With(convertToAttr(m.val, removeUndefinedValues),
                                  LAMBDA a : IF a.k = "throw" THEN a
                                             ELSE [key |-> m.key, val |-> a.v, k |-> "pair"])),
              LAMBDA r : With(FirstThrown(r),
                              LAMBDA t : IF t.k = "throw" THEN t
                                         ELSE attr([M |-> Map(r, LAMBDA m : [key |-> m.key, val |-> m.val])])))
    [] value.k = "boolean" -> attr([BOOL |-> value.v])
    [] value.k = "NaN" -> Thrown(Error("Special numeric value NaN is not allowed"))
    [] value.k = "number" -> attr([N |-> NumStr(value)])
    [] value.k = "string" -> attr([S |-> value.v])
    [] OTHER ->
         Thrown(Error("Unsupported type passed. Pass options.convertClassInstanceToMap=true to marshall typeof object as map attribute."))

\* marshall(data, options) of a record: Thrown, or [k |-> "wire", v |-> the
\* attribute map]
marshall(record, removeUndefinedValues) ==
  With(convertToAttr(record, removeUndefinedValues),
       LAMBDA a : IF a.k = "throw" THEN a ELSE [k |-> "wire", v |-> a.v.M])

(***************************************************************************)
(* Inbound conversion                                                      *)
(***************************************************************************)
\* Number(s) of a wire number, for the numbers of the model
Number(s) ==
  LET nums == {Num(n) : n \in 0..MaxNum} \cup {Half(n) : n \in 0..MaxNum}
  IN  IF \E n \in nums : NumStr(n) = s
      THEN CHOOSE n \in nums : NumStr(n) = s
      ELSE NaN

\* new Date(s) of a string
newDate(s) ==
  IF \E t \in 0..9 : toISOString(Date(t)).v = s
  THEN Date(CHOOSE t \in 0..9 : toISOString(Date(t)).v = s)
  ELSE InvalidDate

\* new Set(array): the elements in first-occurrence order, duplicates dropped
newSet(seq) ==
  LET first(i) == \A j \in 1..(i - 1) : seq[j] # seq[i]
      idx == {i \in 1..Len(seq) : first(i)}
      nth(n) == CHOOSE i \in idx : Cardinality({j \in idx : j < i}) = n - 1
  IN  SetOf([n \in 1..Cardinality(idx) |-> seq[nth(n)]])

\* convertToNative of @aws-sdk/util-dynamodb
RECURSIVE convertToNative(_)
convertToNative(a) ==
  CASE "S" \in DOMAIN a -> Str(a.S)
    [] "N" \in DOMAIN a -> Number(a.N)
    [] "BOOL" \in DOMAIN a -> Bool(a.BOOL)
    [] "NULL" \in DOMAIN a -> null
    [] "L" \in DOMAIN a -> Arr([i \in 1..Len(a.L) |-> convertToNative(a.L[i])])
    [] "M" \in DOMAIN a ->
         Obj([i \in 1..Len(a.M) |-> [key |-> a.M[i].key, val |-> convertToNative(a.M[i].val)]])

\* unmarshall(data) of an optional attribute map (<<>> is undefined):
\* convertToNative({M: undefined}) finds no value and throws
unmarshall(optional) ==
  IF optional = <<>>
  THEN Thrown(Error("No value defined: {}"))
  ELSE convertToNative([M |-> optional[1]])

\* this.schema[key]?.type
TypeIn(s, key) == IF key \in SchemaNames(s) THEN SchemaField(s, key).type ELSE "undefined"

\* postprocessFromMarshall of src/index.ts: walks arrays and objects, and at
\* every depth turns the value under a key the schema types `set` or `date`
\* into a Set or a Date
RECURSIVE postprocessFromMarshall(_, _)
postprocessFromMarshall(item, s) ==
  CASE item.k = "Array" ->
         Arr([i \in 1..Len(item.v) |-> postprocessFromMarshall(item.v[i], s)])
    [] item.k = "Object" ->
         Obj([i \in 1..Len(item.v) |->
               LET key == item.v[i].key
                   value == item.v[i].val
               IN  [key |-> key,
                    val |-> IF TypeIn(s, key) = "set" /\ value.k = "Array"
                            THEN newSet(value.v)
                            ELSE IF TypeIn(s, key) = "date" /\ typeof(value) = "string"
                            THEN newDate(value.v)
                            ELSE postprocessFromMarshall(value, s)]])
    [] OTHER -> item

\* postprocessFromMarshall of the refactored class: the top-level keys only
orm_postprocessFromMarshall(item, s) ==
  Obj([i \in 1..Len(item.v) |->
        LET key == item.v[i].key
            value == item.v[i].val
        IN  [key |-> key,
             val |-> IF TypeIn(s, key) = "date" /\ typeof(value) = "string"
                     THEN newDate(value.v)
                     ELSE IF TypeIn(s, key) = "set" /\ value.k = "Array"
                     THEN newSet(value.v)
                     ELSE value]])

(***************************************************************************)
(* Defaults                                                                *)
(***************************************************************************)
\* field.default(): the generators of the schemas below. `now` is
\* () => new Date(), read at time t.
InvokeDefault(fn, t) ==
  CASE fn.v = "now" -> Date(t)
    [] OTHER -> undefined

RECURSIVE applyDefaultsFrom(_, _, _, _, _)
applyDefaultsFrom(processedItem, s, i, t, gens) ==
  IF i > Len(s)
  THEN [item |-> processedItem, clock |-> t, gens |-> gens]
  ELSE LET fieldName == s[i].name
           field == s[i].def
       IN  IF Get(processedItem, fieldName) = undefined /\ field.default # undefined
           THEN IF typeof(field.default) = "function"
                THEN applyDefaultsFrom(Put(processedItem, fieldName, InvokeDefault(field.default, t)),
                                       s, i + 1, t + 1, Append(gens, fieldName))
                ELSE applyDefaultsFrom(Put(processedItem, fieldName, field.default),
                                       s, i + 1, t, gens)
           ELSE applyDefaultsFrom(processedItem, s, i + 1, t, gens)

\* a filler that takes each generated default from one invocation made when
\* the schema was declared
applyDefaults_atDeclaration(item, s, t) ==
  [applyDefaultsFrom(item, s, 1, 0, <<>>) EXCEPT !.clock = t, !.gens = <<>>]

\* the "Apply defaults" loop of create over a copy of the item, started at
\* time t: the filled record, the time afterwards and the fields whose
\* generator was invoked, in order
applyDefaults(item, s, t) == applyDefaultsFrom(item, s, 1, t, <<>>)

(***************************************************************************)
(* Expressions                                                             *)
(***************************************************************************)
\* Array.prototype.join: the members in order with the separator between
\* neighbours, the two halves of the array joined first
RECURSIVE join(_, _)
join(strings, separator) ==
  IF Len(strings) = 0 THEN ""
  ELSE IF Len(strings) = 1 THEN strings[1]
  ELSE LET mid == Len(strings) \div 2
       IN  join(SubSeq(strings, 1, mid), separator) \o separator
             \o join(SubSeq(strings, mid + 1, Len(strings)), separator)

\* Object.assign(target, source), and every `o[key] = val` of a loop: the
\* properties of target, then those of source, each where it was first
\* assigned and holding the value assigned to it last
assign(target, source) ==
  LET all == target \o source
      isFirst(i) == \A j \in 1..(i - 1) : all[j].key # all[i].key
      isLast(i) == \A j \in (i + 1)..Len(all) : all[j].key # all[i].key
      firsts == SelectSeq([i \in 1..Len(all) |-> i], isFirst)
  IN  [n \in 1..Len(firsts) |->
         [key |-> all[firsts[n]].key,
          val |-> all[CHOOSE i \in 1..Len(all) :
                        all[i].key = all[firsts[n]].key /\ isLast(i)].val]]

\* the part of a condition whose `in` aliases are `:value${index}${i}`
conditionPart_unseparated(condition, index) ==
  LET nameKey == "#field" \o ToString(index)
      valueKey == ":value" \o ToString(index)
      one(text) == [expressions |-> <<text>>,
                    values |-> <<[key |-> valueKey, val |-> condition.value]>>]
      op == condition.operator
  IN  CASE op \in {"=", "<", "<=", ">", ">="} -> one(nameKey \o " " \o op \o " " \o valueKey)
        [] op = "begins_with" -> one("begins_with(" \o nameKey \o ", " \o valueKey \o ")")
        [] op = "contains" -> one("contains(" \o nameKey \o ", " \o valueKey \o ")")
        [] op = "between" ->
             LET valueKey2 == ":value" \o ToString(index) \o "_2"
             IN  [expressions |-> <<nameKey \o " BETWEEN " \o valueKey \o " AND " \o valueKey2>>,
                  values |-> <<[key |-> valueKey, val |-> condition.value],
                               [key |-> valueKey2, val |-> condition.value2]>>]
        [] op = "in" ->
             LET inValues == IF condition.value.k = "Array" THEN condition.value.v
                             ELSE <<condition.value>>
                 inKeys == [i \in 1..Len(inValues) |->
                              ":value" \o ToString(index) \o ToString(i - 1)]
             IN  [expressions |-> <<nameKey \o " IN (" \o join(inKeys, ", ") \o ")">>,
                  values |-> [i \in 1..Len(inValues) |-> [key |-> inKeys[i], val |-> inValues[i]]]]
        [] OTHER -> [expressions |-> <<>>, values |-> <<>>]

\* the part of a condition whose `in` does not wrap a value that is no array
conditionPart_plainIn(condition, index) ==
  LET nameKey == "#field" \o ToString(index)
      valueKey == ":value" \o ToString(index)
      one(text) == [expressions |-> <<text>>,
                    values |-> <<[key |-> valueKey, val |-> condition.value]>>]
      op == condition.operator
  IN  CASE op \in {"=", "<", "<=", ">", ">="} -> one(nameKey \o " " \o op \o " " \o valueKey)
        [] op = "begins_with" -> one("begins_with(" \o nameKey \o ", " \o valueKey \o ")")
        [] op = "contains" -> one("contains(" \o nameKey \o ", " \o valueKey \o ")")
        [] op = "between" ->
             LET valueKey2 == ":value" \o ToString(index) \o "_2"
             IN  [expressions |-> <<nameKey \o " BETWEEN " \o valueKey \o " AND " \o valueKey2>>,
                  values |-> <<[key |-> valueKey, val |-> condition.value],
                               [key |-> valueKey2, val |-> condition.value2]>>]
        [] op = "in" ->
             LET inValues == IF condition.value.k = "Array" THEN condition.value.v
                             ELSE <<>>
                 inKeys == [i \in 1..Len(inValues) |->
                              ":value" \o ToString(index) \o "_" \o ToString(i - 1)]
             IN  [expressions |-> <<nameKey \o " IN (" \o join(inKeys, ", ") \o ")">>,
                  values |-> [i \in 1..Len(inValues) |-> [key |-> inKeys[i], val |-> inValues[i]]]]
        [] OTHER -> [expressions |-> <<>>, values |-> <<>>]

\* the part of a condition whose comparison names the field itself
conditionPart_rawField(condition, index) ==
  LET nameKey == "#field" \o ToString(index)
      valueKey == ":value" \o ToString(index)
      one(text) == [expressions |-> <<text>>,
                    values |-> <<[key |-> valueKey, val |-> condition.value]>>]
      op == condition.operator
  IN  CASE op \in {"=", "<", "<=", ">", ">="} -> one(condition.field \o " " \o op \o " " \o valueKey)
        [] op = "begins_with" -> one("begins_with(" \o nameKey \o ", " \o valueKey \o ")")
        [] op = "contains" -> one("contains(" \o nameKey \o ", " \o valueKey \o ")")
        [] op = "between" ->
             LET valueKey2 == ":value" \o ToString(index) \o "_2"
             IN  [expressions |-> <<nameKey \o " BETWEEN " \o valueKey \o " AND " \o valueKey2>>,
                  values |-> <<[key |-> valueKey, val |-> condition.value],
                               [key |-> valueKey2, val |-> condition.value2]>>]
        [] op = "in" ->
             LET inValues == IF condition.value.k = "Array" THEN condition.value.v
                             ELSE <<condition.value>>
                 inKeys == [i \in 1..Len(inValues) |->
                              ":value" \o ToString(index) \o "_" \o ToString(i - 1)]
             IN  [expressions |-> <<nameKey \o " IN (" \o join(inKeys, ", ") \o ")">>,
                  values |-> [i \in 1..Len(inValues) |-> [key |-> inKeys[i], val |-> inValues[i]]]]
        [] OTHER -> [expressions |-> <<>>, values |-> <<>>]

\* what one condition adds in buildConditionExpression: its fragment (none
\* for an operator outside the switch) and its value aliases
conditionPart(condition, index) ==
  LET nameKey == "#field" \o ToString(index)
      valueKey == ":value" \o ToString(index)
      one(text) == [expressions |-> <<text>>,
                    values |-> <<[key |-> valueKey, val |-> condition.value]>>]
      op == condition.operator
  IN  CASE op \in {"=", "<", "<=", ">", ">="} -> one(nameKey \o " " \o op \o " " \o valueKey)
        [] op = "begins_with" -> one("begins_with(" \o nameKey \o ", " \o valueKey \o ")")
        [] op = "contains" -> one("contains(" \o nameKey \o ", " \o valueKey \o ")")
        [] op = "between" ->
             LET valueKey2 == ":value" \o ToString(index) \o "_2"
             IN  [expressions |-> <<nameKey \o " BETWEEN " \o valueKey \o " AND " \o valueKey2>>,
                  values |-> <<[key |-> valueKey, val |-> condition.value],
                               [key |-> valueKey2, val |-> condition.value2]>>]
        [] op = "in" ->
             LET inValues == IF condition.value.k = "Array" THEN condition.value.v
                             ELSE <<condition.value>>
                 inKeys == [i \in 1..Len(inValues) |->
                              ":value" \o ToString(index) \o "_" \o ToString(i - 1)]
             IN  [expressions |-> <<nameKey \o " IN (" \o join(inKeys, ", ") \o ")">>,
                  values |-> [i \in 1..Len(inValues) |-> [key |-> inKeys[i], val |-> inValues[i]]]]
        [] OTHER -> [expressions |-> <<>>, values |-> <<>>]

\* what the iterations first..last of conditions.forEach leave in the
\* three tables: those of the iterations up to the middle one, then those
\* of the rest assigned over them
RECURSIVE buildFrom(_, _, _)
buildFrom(conditions, first, last) ==
  IF first > last
  THEN [expressions |-> <<>>, attributeNames |-> <<>>, attributeValues |-> <<>>]
  ELSE IF first = last
  THEN LET part == conditionPart(conditions[first], first - 1)
       IN  [expressions |-> part.expressions,
            attributeNames |-> <<[key |-> "#field" \o ToString(first - 1),
                                  val |-> Str(conditions[first].field)]>>,
            attributeValues |-> assign(<<>>, part.values)]
  ELSE LET mid == (first + last) \div 2
           head == buildFrom(conditions, first, mid)
           rest == buildFrom(conditions, mid + 1, last)
       IN  [expressions |-> head.expressions \o rest.expressions,
            attributeNames |-> assign(head.attributeNames, rest.attributeNames),
            attributeValues |-> assign(head.attributeValues, rest.attributeValues)]

buildConditionExpression(conditions) ==
  LET r == buildFrom(conditions, 1, Len(conditions))
  IN  [expression |-> join(r.expressions, " AND "),
       attributeNames |-> r.attributeNames,
       attributeValues |-> r.attributeValues]

(***************************************************************************)
(* The schemas, table descriptors and inputs of the model                  *)
(***************************************************************************)
\* the schema of the usage example, kept to its fields id, name, age,
\* isActive and createdAt
userSchema ==
  << [name |-> "id", def |-> field_string([NoOptions EXCEPT !.required = Bool(TRUE)])],
     [name |-> "name", def |-> field_string([NoOptions EXCEPT !.required = Bool(TRUE),
                                                              !.minLength = Num(2)])],
     [name |-> "age", def |-> field_number(NoOptions)],
     [name |-> "isActive", def |-> field_boolean([NoOptions EXCEPT !.default = Bool(TRUE)])],
     [name |-> "createdAt", def |-> field_date([NoOptions EXCEPT !.default = Fn("now")])] >>

\* a schema whose literal default for `name` is shorter than its minLength
draftSchema ==
  << [name |-> "id", def |-> field_string([NoOptions EXCEPT !.required = Bool(TRUE)])],
     [name |-> "name", def |-> field_string([NoOptions EXCEPT !.minLength = Num(2),
                                                              !.default = Str("J")])],
     [name |-> "age", def |-> field_number([NoOptions EXCEPT !.min = Num(0),
                                                             !.integer = Bool(TRUE)])],
     [name |-> "createdAt", def |-> field_date([NoOptions EXCEPT !.required = Bool(TRUE),
                                                                !.default = Fn("now")])] >>

Schemas == {userSchema, draftSchema}

\* the table descriptor of the usage example and of the tests: no sort key
Configs == {[tableName |-> "users", partitionKey |-> "id", sortKey |-> undefined]}

Absent == [k |-> "absent"]

\* a caller holds the record object it passed to create as <<record>>, and
\* <<>> when it holds none
NoObject == <<>>

\* the object with the given properties, those marked Absent left out
Object(pairs) == SelectSeq(pairs, LAMBDA p : p.val # Absent)

\* the records passed to create
Items ==
  { Object(<<[key |-> "id", val |-> id], [key |-> "name", val |-> name],
             [key |-> "age", val |-> age], [key |-> "createdAt", val |-> createdAt]>>) :
      id \in {Absent, null, Str("1")},
      name \in {Absent, undefined, null, Str("Jo"), Str("J")},
      age \in {Absent, undefined, Num(18), Half(18)},
      createdAt \in {Absent, null, Date(0), InvalidDate} }

\* the update maps passed to update
Updates ==
  { Object(<<[key |-> "name", val |-> name], [key |-> "age", val |-> age]>>) :
      name \in {Absent, Str("Adam"), Str("J"), Num(5), null, undefined},
      age \in {Absent, Num(31), Half(30), NaN} }

\* sequences of at most n members of S
SeqsUpTo(S, n) == UNION {[1..m -> S] : m \in 0..n}

\* the entries passed to batchWrite of src/index.ts; <<>> is a missing member
BatchOperations ==
  { [operation |-> Str("put"), item |-> <<item>>, key |-> <<>>] :
      item \in { <<[key |-> "id", val |-> Str("1")], [key |-> "name", val |-> Str("Jo")],
                   [key |-> "createdAt", val |-> Date(0)]>>,
                 <<[key |-> "id", val |-> Str("2")], [key |-> "name", val |-> Str("J")],
                   [key |-> "createdAt", val |-> Date(0)]>> } }
    \cup { [operation |-> Str(tag), item |-> <<>>, key |-> <<[partitionKey |-> Str("3"), sortKey |-> undefined]>>] :
             tag \in {"delete", "update"} }
    \cup { [operation |-> Str("put"), item |-> <<>>, key |-> <<>>] }

\* the entries passed to batchWrite of the refactored class
BatchRequests ==
  { [type |-> op.operation,
     item |-> op.item,
     key |-> IF op.key = <<>> THEN <<>>
             ELSE << <<[key |-> "id", val |-> op.key[1].partitionKey]>> >>] :
      op \in BatchOperations }

\* the predicate lists passed as filters and key conditions
Condition(field, operator, value, value2) ==
  [field |-> field, operator |-> operator, value |-> value, value2 |-> value2]

ConditionLists ==
  { <<>>,
    <<Condition("age", ">", Num(18), undefined)>>,
    <<Condition("age", "between", Num(18), Num(30))>>,
    <<Condition("age", "between", Num(18), undefined)>>,
    <<Condition("name", "in", Arr(<<Str("Jo"), Str("Ada")>>), undefined),
      Condition("isActive", "=", Bool(TRUE), undefined)>>,
    <<Condition("id", "=", Str("1"), undefined),
      Condition("name", "begins_with", Str("A"), undefined)>> }

\* the options passed to query and scan; <<>> is a missing member
Options ==
  { [filterExpression |-> f, select |-> sel, exclusiveStartKey |-> start,
     limit |-> limit, scanIndexForward |-> undefined, indexName |-> undefined,
     segment |-> undefined, totalSegments |-> undefined] :
      f \in {<<>>} \cup {<<l>> : l \in ConditionLists},
      sel \in {<<>>, << <<"id", "name">> >>},
      start \in {<<>>, << <<[key |-> "id", val |-> Str("1")]>> >>},
      limit \in {undefined, Num(10)} }

\* partition key values passed to get and delete
KeyValues == {Str("1"), Str("2"), undefined}

\* the items the store holds, in wire format
Ada == <<[key |-> "id", val |-> [S |-> "1"]], [key |-> "name", val |-> [S |-> "Ada"]]>>

Adam ==
  <<[key |-> "id", val |-> [S |-> "1"]], [key |-> "name", val |-> [S |-> "Adam"]],
    [key |-> "createdAt", val |-> [S |-> "1970-01-01T00:00:00.001Z"]]>>

StoredItems == {Ada, Adam}

\* the errors the transport fails with
TransportErrors ==
  {[name |-> "ProvisionedThroughputExceededException", message |-> "Rate exceeded"],
   [name |-> "TimeoutError", message |-> "Connection timed out"]}

(***************************************************************************)
(* The transport: client.send(command) resolves with a response            *)
(* descriptor or rejects with an error.  An optional member of a response  *)
(* is <<>> when missing and <<x>> when present.                            *)
(***************************************************************************)
Bodies(cmd) ==
  CASE cmd = "PutItemCommand" -> {[Attributes |-> <<>>]} \cup {[Attributes |-> <<w>>] : w \in StoredItems}
    [] cmd = "GetItemCommand" -> {[Item |-> <<>>]} \cup {[Item |-> <<w>>] : w \in StoredItems}
    [] cmd = "DeleteItemCommand" -> {[Attributes |-> <<>>]}
    [] cmd = "UpdateItemCommand" -> {[Attributes |-> <<>>]} \cup {[Attributes |-> <<w>>] : w \in StoredItems}
    [] cmd = "BatchWriteItemCommand" -> {[UnprocessedItems |-> <<>>]}
    [] cmd \in {"QueryCommand", "ScanCommand"} ->
         { [Items |-> <<>>, LastEvaluatedKey |-> <<>>, Count |-> <<>>],
           [Items |-> << <<>> >>, LastEvaluatedKey |-> <<>>, Count |-> <<0>>],
           [Items |-> << <<Ada>> >>, LastEvaluatedKey |-> <<>>, Count |-> <<1>>],
           [Items |-> << <<Adam, Ada>> >>,
            LastEvaluatedKey |-> << <<[key |-> "id", val |-> [S |-> "1"]]>> >>,
            Count |-> <<2>>] }
    [] cmd = "BatchGetItemCommand" ->
         { [Responses |-> <<>>],
           [Responses |-> << <<[key |-> "users", val |-> <<Adam, Ada>>]>> >>],
           [Responses |-> << <<[key |-> "orders", val |-> <<Ada>>]>> >>] }
    [] OTHER -> {}

Replies(command) ==
  {[ok |-> TRUE, body |-> b] : b \in Bodies(command.cmd)}
    \cup {[ok |-> FALSE, error |-> e] : e \in TransportErrors}

(***************************************************************************)
(* Calls.  Each caller has at most one call in flight; a call is idle,     *)
(* awaiting the transport, or done with its outcome.                       *)
(***************************************************************************)
CallIds == {1}

Return(value) == [kind |-> "return", value |-> value]
\* the error caught and thrown again inside a new Error
Throw_wrapped(e) == [kind |-> "throw", value |-> Error(e.message)]

Throw(e) == [kind |-> "throw", value |-> e]

Idle ==
  [cls |-> "-", op |-> "-", args |-> <<>>, locals |-> <<>>, gens |-> <<>>,
   pc |-> "idle", requests |-> <<>>, response |-> <<>>, outcome |-> [kind |-> "none"]]

\* the call threw before its await
Failed(call, e) ==
  call @@ [pc |-> "done", requests |-> <<>>, response |-> <<>>, outcome |-> Throw(e)]

\* a send through a field of the instance that holds the command of the
\* call already awaiting, when there is one
Sent_shared(call, command) ==
  call @@ [pc |-> "awaiting",
           requests |-> IF \E d \in DOMAIN calls : calls[d].pc = "awaiting"
                        THEN calls[CHOOSE d \in DOMAIN calls : calls[d].pc = "awaiting"].requests
                        ELSE <<command>>,
           response |-> <<>>,
           outcome |-> [kind |-> "none"]]

\* the call handed `command` to client.send and awaits the response
Sent(call, command) ==
  call @@ [pc |-> "awaiting", requests |-> <<command>>, response |-> <<>>,
           outcome |-> [kind |-> "none"]]

\* a transport failure answered by sending the command again
Settled_retry(call, reply, outcome) ==
  [call EXCEPT !.pc = "done", !.response = <<reply>>, !.outcome = outcome,
               !.requests = IF reply.ok THEN @ ELSE @ \o @]

\* the awaited send settled with `reply` and the call ended with `outcome`
Settled(call, reply, outcome) ==
  [call EXCEPT !.pc = "done", !.response = <<reply>>, !.outcome = outcome]

NewCall(cls, op, args, locals, gens) ==
  [cls |-> cls, op |-> op, args |-> args, locals |-> locals, gens |-> gens]

Awaits(c, cls, op) ==
  /\ calls[c].pc = "awaiting"
  /\ calls[c].cls = cls
  /\ calls[c].op = op

(***************************************************************************)
(* DynamoORM of src/index.ts                                               *)
(***************************************************************************)
create(c, item) ==
  /\ calls[c].pc = "idle"
  /\ LET d == applyDefaults(item, schema, clock)
         processedItem == d.item
         e == validateSchema(processedItem, schema)
         marshalledItem == preprocessForMarshall(Obj(processedItem))
         m == IF marshalledItem.k = "throw" THEN marshalledItem
              ELSE marshall(marshalledItem, FALSE)
         command ==
           [cmd |-> "PutItemCommand",
            input |-> [TableName |-> config.tableName,
                       Item |-> m.v,
                       ConditionExpression |->
                         "attribute_not_exists(" \o config.partitionKey \o ")"]]
         call == NewCall("index", "create", [item |-> item],
                         [processedItem |-> processedItem], d.gens)
     IN  /\ d.clock <= MaxClock
         /\ clock' = d.clock
         /\ calls' = [calls EXCEPT ![c] =
                        IF e # NoError THEN Failed(call, e)
                        ELSE IF m.k = "throw" THEN Failed(call, m.v)
                        ELSE Sent(call, command)]
  \* `{ ...item }`: the defaults went to the copy, the object passed is as it was
  /\ heap' = [heap EXCEPT ![c] = <<item>>]
  /\ UNCHANGED <<schema, config, data, thrown, wire, native, compiled,
               position, invoked>>

\* create after `await this.client.send(command)`
create_resume(c) ==
  /\ Awaits(c, "index", "create")
  /\ \E reply \in Replies(calls[c].requests[1]) :
       calls' = [calls EXCEPT ![c] =
                   Settled(@, reply,
                           IF reply.ok THEN Return(Obj(@.locals.processedItem))
                           ELSE Throw(reply.error))]
  /\ UNCHANGED <<schema, config, clock, data, thrown, wire, native, compiled,
               position, invoked, heap>>

\* the key object of get, delete and the batch entries: the partition key
\* and, when the table has a sort key and one is given, the sort key
keyObject(cfg, partitionKey, sortKey) ==
  IF Truthy(cfg.sortKey) /\ sortKey # undefined
  THEN <<[key |-> cfg.partitionKey, val |-> partitionKey],
         [key |-> cfg.sortKey.v, val |-> sortKey]>>
  ELSE <<[key |-> cfg.partitionKey, val |-> partitionKey]>>

get(c, partitionKey, sortKey) ==
  /\ calls[c].pc = "idle"
  /\ LET key == keyObject(config, partitionKey, sortKey)
         m == marshall(Obj(key), FALSE)
         command == [cmd |-> "GetItemCommand",
                     input |-> [TableName |-> config.tableName, Key |-> m.v]]
         call == NewCall("index", "get",
                         [partitionKey |-> partitionKey, sortKey |-> sortKey], <<>>, <<>>)
     IN  calls' = [calls EXCEPT ![c] =
                     IF m.k = "throw" THEN Failed(call, m.v) ELSE Sent(call, command)]
  /\ UNCHANGED <<schema, config, clock, data, thrown, wire, native, compiled,
               position, invoked, heap>>

\* get after `await this.client.send(command)`
get_resume(c) ==
  /\ Awaits(c, "index", "get")
  /\ \E reply \in Replies(calls[c].requests[1]) :
       calls' = [calls EXCEPT ![c] =
                   Settled(@, reply,
                           IF ~reply.ok THEN Throw(reply.error)
                           ELSE IF reply.body.Item = <<>> THEN Return(null)
                           ELSE Return(postprocessFromMarshall(unmarshall(reply.body.Item),
                                                               schema)))]
  /\ UNCHANGED <<schema, config, clock, data, thrown, wire, native, compiled,
               position, invoked, heap>>

delete(c, partitionKey, sortKey) ==
  /\ calls[c].pc = "idle"
  /\ LET key == keyObject(config, partitionKey, sortKey)
         m == marshall(Obj(key), FALSE)
         command == [cmd |-> "DeleteItemCommand",
                     input |-> [TableName |-> config.tableName, Key |-> m.v]]
         call == NewCall("index", "delete",
                         [partitionKey |-> partitionKey, sortKey |-> sortKey], <<>>, <<>>)
     IN  calls' = [calls EXCEPT ![c] =
                     IF m.k = "throw" THEN Failed(call, m.v) ELSE Sent(call, command)]
  /\ UNCHANGED <<schema, config, clock, data, thrown, wire, native, compiled,
               position, invoked, heap>>

\* delete after `await this.client.send(command)`
delete_resume(c) ==
  /\ Awaits(c, "index", "delete")
  /\ \E reply \in Replies(calls[c].requests[1]) :
       calls' = [calls EXCEPT ![c] =
                   Settled(@, reply,
                           IF reply.ok THEN Return(undefined) ELSE Throw(reply.error))]
  /\ UNCHANGED <<schema, config, clock, data, thrown, wire, native, compiled,
               position, invoked, heap>>

\* the "Validate updates" loop of update: the first error, or NoError
RECURSIVE validateUpdatesFrom(_, _, _)
validateUpdatesFrom(updates, s, i) ==
  IF i > Len(updates)
  THEN NoError
  ELSE LET fieldName == updates[i].key
           value == updates[i].val
           e == IF fieldName \in SchemaNames(s) /\ value # undefined
                THEN validateField(value, SchemaField(s, fieldName), fieldName)
                ELSE NoError
       IN  IF e # NoError THEN e ELSE validateUpdatesFrom(updates, s, i + 1)

\* the "Build update expression" loop of update
updateParts(updates) ==
  [updateExpressions |->
     [i \in 1..Len(updates) |-> "#field" \o ToString(i - 1) \o " = :value" \o ToString(i - 1)],
   attributeNames |->
     [i \in 1..Len(updates) |-> [key |-> "#field" \o ToString(i - 1), val |-> Str(updates[i].key)]],
   attributeValues |->
     [i \in 1..Len(updates) |-> [key |-> ":value" \o ToString(i - 1), val |-> updates[i].val]]]

update(c, partitionKey, sortKey, updates) ==
  /\ calls[c].pc = "idle"
  /\ LET e == validateUpdatesFrom(updates, schema, 1)
         key == IF Truthy(config.sortKey)
                THEN <<[key |-> config.partitionKey, val |-> partitionKey],
                       [key |-> config.sortKey.v, val |-> sortKey]>>
                ELSE <<[key |-> config.partitionKey, val |-> partitionKey]>>
         parts == updateParts(updates)
         pre == preprocessForMarshall(Obj(parts.attributeValues))
         processedValues == IF pre.k = "throw" THEN pre ELSE marshall(pre, FALSE)
         k == marshall(Obj(key), FALSE)
         command ==
           [cmd |-> "UpdateItemCommand",
            input |-> [TableName |-> config.tableName,
                       Key |-> k.v,
                       UpdateExpression |-> "SET " \o join(parts.updateExpressions, ", "),
                       ExpressionAttributeNames |-> parts.attributeNames,
                       ExpressionAttributeValues |-> processedValues.v,
                       ReturnValues |-> "ALL_NEW"]]
         call == NewCall("index", "update",
                         [partitionKey |-> partitionKey, sortKey |-> sortKey,
                          updates |-> updates], <<>>, <<>>)
     IN  calls' = [calls EXCEPT ![c] =
                     IF e # NoError THEN Failed(call, e)
                     ELSE IF processedValues.k = "throw" THEN Failed(call, processedValues.v)
                     ELSE IF k.k = "throw" THEN Failed(call, k.v)
                     ELSE Sent(call, command)]
  /\ UNCHANGED <<schema, config, clock, data, thrown, wire, native, compiled,
               position, invoked, heap>>

\* update after `await this.client.send(command)`
update_resume(c) ==
  /\ Awaits(c, "index", "update")
  /\ \E reply \in Replies(calls[c].requests[1]) :
       calls' = [calls EXCEPT ![c] =
                   Settled(@, reply,
                           IF ~reply.ok THEN Throw(reply.error)
                           ELSE LET item == unmarshall(reply.body.Attributes)
                                IN  IF item.k = "throw" THEN Throw(item.v)
                                    ELSE Return(postprocessFromMarshall(item, schema)))]
  /\ UNCHANGED <<schema, config, clock, data, thrown, wire, native, compiled,
               position, invoked, heap>>

\* the write request of one batchWrite entry, or Thrown
writeRequest(op, s, cfg) ==
  IF op.operation = Str("put") /\ op.item # <<>>
  THEN LET e == validateSchema(op.item[1], s)
           pre == preprocessForMarshall(Obj(op.item[1]))
           m == IF pre.k = "throw" THEN pre ELSE marshall(pre, FALSE)
       IN  IF e # NoError THEN Thrown(e)
           ELSE IF m.k = "throw" THEN m
           ELSE [k |-> "request", v |-> [PutRequest |-> [Item |-> m.v]]]
  ELSE IF op.operation = Str("delete") /\ op.key # <<>>
  THEN LET m == marshall(Obj(keyObject(cfg, op.key[1].partitionKey, op.key[1].sortKey)), FALSE)
       IN  IF m.k = "throw" THEN m
           ELSE [k |-> "request", v |-> [DeleteRequest |-> [Key |-> m.v]]]
  ELSE Thrown(Error("Invalid batch operation"))

batchWrite(c, operations) ==
  /\ calls[c].pc = "idle"
  /\ LET results == [i \in 1..Len(operations) |-> writeRequest(operations[i], schema, config)]
         writeRequests == [i \in 1..Len(operations) |-> results[i].v]
         command ==
           [cmd |-> "BatchWriteItemCommand",
            input |-> [RequestItems |-> <<[key |-> config.tableName, val |-> writeRequests]>>]]
         call == NewCall("index", "batchWrite", [operations |-> operations], <<>>, <<>>)
     IN  calls' = [calls EXCEPT ![c] =
                     IF FirstThrown(results).k = "throw"
                     THEN Failed(call, FirstThrown(results).v)
                     ELSE Sent(call, command)]
  /\ UNCHANGED <<schema, config, clock, data, thrown, wire, native, compiled,
               position, invoked, heap>>

\* batchWrite after `await this.client.send(command)`
batchWrite_resume(c) ==
  /\ Awaits(c, "index", "batchWrite")
  /\ \E reply \in Replies(calls[c].requests[1]) :
       calls' = [calls EXCEPT ![c] =
                   Settled(@, reply,
                           IF reply.ok THEN Return(undefined) ELSE Throw(reply.error))]
  /\ UNCHANGED <<schema, config, clock, data, thrown, wire, native, compiled,
               position, invoked, heap>>

\* the `#select{i}` aliases of a projection
selectNames(select) ==
  [i \in 1..Len(select) |-> [key |-> "#select" \o ToString(i - 1), val |-> Str(select[i])]]

\* options.exclusiveStartKey ? marshall(options.exclusiveStartKey) : undefined
startKey(options) ==
  IF options.exclusiveStartKey = <<>>
  THEN [k |-> "wire", v |-> <<>>]
  ELSE With(marshall(Obj(options.exclusiveStartKey[1]), FALSE),
            LAMBDA m : IF m.k = "throw" THEN m ELSE [k |-> "wire", v |-> <<m.v>>])

\* the expressions and alias tables query and scan build from the options,
\* on top of the given key aliases
expressionParts(options, names, values) ==
  LET hasFilter == options.filterExpression # <<>> /\ Len(options.filterExpression[1]) > 0
      hasSelect == options.select # <<>> /\ Len(options.select[1]) > 0
  IN  With(IF hasFilter THEN buildConditionExpression(options.filterExpression[1])
           ELSE [expression |-> "", attributeNames |-> <<>>, attributeValues |-> <<>>],
           LAMBDA filterResult :
             [filterExpression |-> IF hasFilter THEN Str(filterResult.expression) ELSE undefined,
              projectionExpression |->
                IF hasSelect
                THEN Str(join(Map(selectNames(options.select[1]), LAMBDA n : n.key), ", "))
                ELSE undefined,
              expressionAttributeNames |->
                assign(assign(names, filterResult.attributeNames),
                       IF hasSelect THEN selectNames(options.select[1]) ELSE <<>>),
              expressionAttributeValues |-> assign(values, filterResult.attributeValues)])

\* the result of query and scan from a response
pageOf(body, s) ==
  Obj(<<[key |-> "items",
         val |-> Arr(Map(IF body.Items = <<>> THEN <<>> ELSE body.Items[1],
                         LAMBDA item : postprocessFromMarshall(unmarshall(<<item>>), s)))],
        [key |-> "lastEvaluatedKey",
         val |-> IF body.LastEvaluatedKey = <<>> THEN undefined
                 ELSE unmarshall(body.LastEvaluatedKey)],
        [key |-> "count",
         val |-> IF body.Count = <<>> THEN Num(0) ELSE Num(body.Count[1])]>>)

query(c, partitionKeyValue, options) ==
  /\ calls[c].pc = "idle"
  /\ \E parts \in {expressionParts(options,
                                   <<[key |-> "#pk", val |-> Str(config.partitionKey)]>>,
                                   <<[key |-> ":pkValue", val |-> partitionKeyValue]>>)} :
     \E pre \in {preprocessForMarshall(Obj(parts.expressionAttributeValues))} :
     \E m \in {IF pre.k = "throw" THEN pre ELSE marshall(pre, FALSE)} :
     \E start \in {startKey(options)} :
       LET command ==
             [cmd |-> "QueryCommand",
              input |-> [TableName |-> config.tableName,
                         IndexName |-> options.indexName,
                         KeyConditionExpression |-> "#pk = :pkValue",
                         FilterExpression |-> parts.filterExpression,
                         ProjectionExpression |-> parts.projectionExpression,
                         ExpressionAttributeNames |-> parts.expressionAttributeNames,
                         ExpressionAttributeValues |-> m.v,
                         Limit |-> options.limit,
                         ScanIndexForward |-> options.scanIndexForward,
                         ExclusiveStartKey |-> start.v]]
           call == NewCall("index", "query",
                           [partitionKeyValue |-> partitionKeyValue, options |-> options],
                           <<>>, <<>>)
       IN  calls' = [calls EXCEPT ![c] =
                       IF m.k = "throw" THEN Failed(call, m.v)
                       ELSE IF start.k = "throw" THEN Failed(call, start.v)
                       ELSE Sent(call, command)]
  /\ UNCHANGED <<schema, config, clock, data, thrown, wire, native, compiled,
               position, invoked, heap>>

\* query after `await this.client.send(command)`
query_resume(c) ==
  /\ Awaits(c, "index", "query")
  /\ \E reply \in Replies(calls[c].requests[1]) :
       calls' = [calls EXCEPT ![c] =
                   Settled(@, reply,
                           IF reply.ok THEN Return(pageOf(reply.body, schema))
                           ELSE Throw(reply.error))]
  /\ UNCHANGED <<schema, config, clock, data, thrown, wire, native, compiled,
               position, invoked, heap>>

scan(c, options) ==
  /\ calls[c].pc = "idle"
  /\ \E parts \in {expressionParts(options, <<>>, <<>>)} :
     \E pre \in {preprocessForMarshall(Obj(parts.expressionAttributeValues))} :
     \E m \in {IF Len(parts.expressionAttributeValues) = 0 THEN [k |-> "wire", v |-> <<>>]
               ELSE IF pre.k = "throw" THEN pre
               ELSE With(marshall(pre, FALSE),
                         LAMBDA w : IF w.k = "throw" THEN w ELSE [k |-> "wire", v |-> <<w.v>>])} :
     \E start \in {startKey(options)} :
       LET command ==
             [cmd |-> "ScanCommand",
              input |-> [TableName |-> config.tableName,
                         IndexName |-> options.indexName,
                         FilterExpression |-> parts.filterExpression,
                         ProjectionExpression |-> parts.projectionExpression,
                         ExpressionAttributeNames |->
                           IF Len(parts.expressionAttributeNames) > 0
                           THEN <<parts.expressionAttributeNames>> ELSE <<>>,
                         ExpressionAttributeValues |-> m.v,
                         Limit |-> options.limit,
                         ExclusiveStartKey |-> start.v,
                         Segment |-> options.segment,
                         TotalSegments |-> options.totalSegments]]
           call == NewCall("index", "scan", [options |-> options], <<>>, <<>>)
       IN  calls' = [calls EXCEPT ![c] =
                       IF m.k = "throw" THEN Failed(call, m.v)
                       ELSE IF start.k = "throw" THEN Failed(call, start.v)
                       ELSE Sent(call, command)]
  /\ UNCHANGED <<schema, config, clock, data, thrown, wire, native, compiled,
               position, invoked, heap>>

\* scan after `await this.client.send(command)`
scan_resume(c) ==
  /\ Awaits(c, "index", "scan")
  /\ \E reply \in Replies(calls[c].requests[1]) :
       calls' = [calls EXCEPT ![c] =
                   Settled(@, reply,
                           IF reply.ok THEN Return(pageOf(reply.body, schema))
                           ELSE Throw(reply.error))]
  /\ UNCHANGED <<schema, config, clock, data, thrown, wire, native, compiled,
               position, invoked, heap>>

batchGet(c, keys) ==
  /\ calls[c].pc = "idle"
  /\ \E requestItems \in {Map(keys, LAMBDA key :
                                marshall(Obj(keyObject(config, key.partitionKey, key.sortKey)),
                                         FALSE))} :
       LET command ==
             [cmd |-> "BatchGetItemCommand",
              input |-> [RequestItems |->
                           <<[key |-> config.tableName,
                              val |-> [Keys |-> Map(requestItems, LAMBDA m : m.v)]]>>]]
           call == NewCall("index", "batchGet", [keys |-> keys], <<>>, <<>>)
       IN  calls' = [calls EXCEPT ![c] =
                       IF FirstThrown(requestItems).k = "throw"
                       THEN Failed(call, FirstThrown(requestItems).v)
                       ELSE Sent(call, command)]
  /\ UNCHANGED <<schema, config, clock, data, thrown, wire, native, compiled,
               position, invoked, heap>>

\* result.Responses?.[tableName] || []
responsesFor(body, tableName) ==
  IF body.Responses = <<>> \/ tableName \notin Keys(body.Responses[1])
  THEN <<>>
  ELSE body.Responses[1][CHOOSE i \in 1..Len(body.Responses[1]) :
                           body.Responses[1][i].key = tableName].val

\* batchGet after `await this.client.send(command)`
batchGet_resume(c) ==
  /\ Awaits(c, "index", "batchGet")
  /\ \E reply \in Replies(calls[c].requests[1]) :
       calls' = [calls EXCEPT ![c] =
                   Settled(@, reply,
                           IF reply.ok
                           THEN Return(Arr(Map(responsesFor(reply.body, config.tableName),
                                               LAMBDA item :
                                                 postprocessFromMarshall(unmarshall(<<item>>),
                                                                         schema))))
                           ELSE Throw(reply.error))]
  /\ UNCHANGED <<schema, config, clock, data, thrown, wire, native, compiled,
               position, invoked, heap>>

(***************************************************************************)
(* DynamoORM of the refactored class (src/orm)                             *)
(***************************************************************************)
\* a create that validates the item as passed, before the defaults
orm_create_validatesInput(c, item) ==
  /\ calls[c].pc = "idle"
  /\ LET d == applyDefaults(item, schema, clock)
         processedItem == d.item
         e == validateSchema(item, schema)
         marshalledItem == preprocessForMarshall(Obj(processedItem))
         m == IF marshalledItem.k = "throw" THEN marshalledItem
              ELSE marshall(marshalledItem, TRUE)
         command == [cmd |-> "PutItemCommand",
                     input |-> [TableName |-> config.tableName, Item |-> m.v]]
         call == NewCall("orm", "create", [item |-> item],
                         [processedItem |-> processedItem], d.gens)
     IN  /\ d.clock <= MaxClock
         /\ clock' = d.clock
         /\ calls' = [calls EXCEPT ![c] =
                        IF e # NoError THEN Failed(call, e)
                        ELSE IF m.k = "throw" THEN Failed(call, m.v)
                        ELSE Sent(call, command)]
  \* `{ ...item }`: the defaults went to the copy, the object passed is as it was
  /\ heap' = [heap EXCEPT ![c] = <<item>>]
  /\ UNCHANGED <<schema, config, data, thrown, wire, native, compiled,
               position, invoked>>

\* a create that writes the defaults into the object it was passed
orm_create_inPlace(c, item) ==
  /\ calls[c].pc = "idle"
  /\ LET d == applyDefaults(item, schema, clock)
         processedItem == d.item
         e == validateSchema(processedItem, schema)
         marshalledItem == preprocessForMarshall(Obj(processedItem))
         m == IF marshalledItem.k = "throw" THEN marshalledItem
              ELSE marshall(marshalledItem, TRUE)
         command == [cmd |-> "PutItemCommand",
                     input |-> [TableName |-> config.tableName, Item |-> m.v]]
         call == NewCall("orm", "create", [item |-> item],
                         [processedItem |-> processedItem], d.gens)
     IN  /\ d.clock <= MaxClock
         /\ clock' = d.clock
         /\ calls' = [calls EXCEPT ![c] =
                        IF e # NoError THEN Failed(call, e)
                        ELSE IF m.k = "throw" THEN Failed(call, m.v)
                        ELSE Sent(call, command)]
  /\ heap' = [heap EXCEPT ![c] = <<applyDefaults(item, schema, clock).item>>]
  /\ UNCHANGED <<schema, config, data, thrown, wire, native, compiled,
               position, invoked>>

orm_create(c, item) ==
  /\ calls[c].pc = "idle"
  /\ LET d == applyDefaults(item, schema, clock)
         processedItem == d.item
         e == validateSchema(processedItem, schema)
         marshalledItem == preprocessForMarshall(Obj(processedItem))
         m == IF marshalledItem.k = "throw" THEN marshalledItem
              ELSE marshall(marshalledItem, TRUE)
         command == [cmd |-> "PutItemCommand",
                     input |-> [TableName |-> config.tableName, Item |-> m.v]]
         call == NewCall("orm", "create", [item |-> item],
                         [processedItem |-> processedItem], d.gens)
     IN  /\ d.clock <= MaxClock
         /\ clock' = d.clock
         /\ calls' = [calls EXCEPT ![c] =
                        IF e # NoError THEN Failed(call, e)
                        ELSE IF m.k = "throw" THEN Failed(call, m.v)
                        ELSE Sent(call, command)]
  \* `{ ...item }`: the defaults went to the copy, the object passed is as it was
  /\ heap' = [heap EXCEPT ![c] = <<item>>]
  /\ UNCHANGED <<schema, config, data, thrown, wire, native, compiled,
               position, invoked>>

\* a create that returns the attributes of the response when it has any
orm_create_resume_readsResponse(c) ==
  /\ Awaits(c, "orm", "create")
  /\ \E reply \in Replies(calls[c].requests[1]) :
       calls' = [calls EXCEPT ![c] =
                   Settled(@, reply,
                           IF ~reply.ok THEN Throw(reply.error)
                           ELSE IF reply.body.Attributes = <<>>
                           THEN Return(Obj(@.locals.processedItem))
                           ELSE Return(orm_postprocessFromMarshall(
                                         unmarshall(reply.body.Attributes), schema)))]
  /\ UNCHANGED <<schema, config, clock, data, thrown, wire, native, compiled,
               position, invoked, heap>>

\* create after `await this.client.send(command)`
orm_create_resume(c) ==
  /\ Awaits(c, "orm", "create")
  /\ \E reply \in Replies(calls[c].requests[1]) :
       calls' = [calls EXCEPT ![c] =
                   Settled(@, reply,
                           IF reply.ok THEN Return(Obj(@.locals.processedItem))
                           ELSE Throw(reply.error))]
  /\ UNCHANGED <<schema, config, clock, data, thrown, wire, native, compiled,
               position, invoked, heap>>

orm_get(c, key) ==
  /\ calls[c].pc = "idle"
  /\ LET m == marshall(Obj(key), FALSE)
         command == [cmd |-> "GetItemCommand",
                     input |-> [TableName |-> config.tableName, Key |-> m.v]]
         call == NewCall("orm", "get", [key |-> key], <<>>, <<>>)
     IN  calls' = [calls EXCEPT ![c] =
                     IF m.k = "throw" THEN Failed(call, m.v) ELSE Sent(call, command)]
  /\ UNCHANGED <<schema, config, clock, data, thrown, wire, native, compiled,
               position, invoked, heap>>

\* a get that unmarshalls the item without looking whether there is one
orm_get_resume_unchecked(c) ==
  /\ Awaits(c, "orm", "get")
  /\ \E reply \in Replies(calls[c].requests[1]) :
       calls' = [calls EXCEPT ![c] =
                   Settled(@, reply,
                           IF ~reply.ok THEN Throw(reply.error)
                           ELSE LET item == unmarshall(reply.body.Item)
                                IN  IF item.k = "throw" THEN Throw(item.v)
                                    ELSE Return(orm_postprocessFromMarshall(item, schema)))]
  /\ UNCHANGED <<schema, config, clock, data, thrown, wire, native, compiled,
               position, invoked, heap>>

\* get after `await this.client.send(command)`
orm_get_resume(c) ==
  /\ Awaits(c, "orm", "get")
  /\ \E reply \in Replies(calls[c].requests[1]) :
       calls' = [calls EXCEPT ![c] =
                   Settled(@, reply,
                           IF ~reply.ok THEN Throw(reply.error)
                           ELSE IF reply.body.Item = <<>> THEN Return(null)
                           ELSE Return(orm_postprocessFromMarshall(
                                         unmarshall(reply.body.Item), schema)))]
  /\ UNCHANGED <<schema, config, clock, data, thrown, wire, native, compiled,
               position, invoked, heap>>

orm_delete(c, key) ==
  /\ calls[c].pc = "idle"
  /\ LET m == marshall(Obj(key), FALSE)
         command == [cmd |-> "DeleteItemCommand",
                     input |-> [TableName |-> config.tableName, Key |-> m.v]]
         call == NewCall("orm", "delete", [key |-> key], <<>>, <<>>)
     IN  calls' = [calls EXCEPT ![c] =
                     IF m.k = "throw" THEN Failed(call, m.v) ELSE Sent(call, command)]
  /\ UNCHANGED <<schema, config, clock, data, thrown, wire, native, compiled,
               position, invoked, heap>>

\* delete after `await this.client.send(command)`
orm_delete_resume(c) ==
  /\ Awaits(c, "orm", "delete")
  /\ \E reply \in Replies(calls[c].requests[1]) :
       calls' = [calls EXCEPT ![c] =
                   Settled(@, reply,
                           IF reply.ok THEN Return(undefined) ELSE Throw(reply.error))]
  /\ UNCHANGED <<schema, config, clock, data, thrown, wire, native, compiled,
               position, invoked, heap>>

orm_update(c, key, updates) ==
  /\ calls[c].pc = "idle"
  /\ LET parts == updateParts(updates)
         k == marshall(Obj(key), FALSE)
         pre == preprocessForMarshall(Obj(parts.attributeValues))
         values == IF pre.k = "throw" THEN pre ELSE marshall(pre, TRUE)
         command ==
           [cmd |-> "UpdateItemCommand",
            input |-> [TableName |-> config.tableName,
                       Key |-> k.v,
                       UpdateExpression |-> "SET " \o join(parts.updateExpressions, ", "),
                       ExpressionAttributeNames |-> parts.attributeNames,
                       ExpressionAttributeValues |-> values.v,
                       ReturnValues |-> "ALL_NEW"]]
         call == NewCall("orm", "update", [key |-> key, updates |-> updates], <<>>, <<>>)
     IN  calls' = [calls EXCEPT ![c] =
                     IF k.k = "throw" THEN Failed(call, k.v)
                     ELSE IF values.k = "throw" THEN Failed(call, values.v)
                     ELSE Sent(call, command)]
  /\ UNCHANGED <<schema, config, clock, data, thrown, wire, native, compiled,
               position, invoked, heap>>

\* update after `await this.client.send(command)`: a missing Attributes is
\* read as {}
orm_update_resume(c) ==
  /\ Awaits(c, "orm", "update")
  /\ \E reply \in Replies(calls[c].requests[1]) :
       calls' = [calls EXCEPT ![c] =
                   Settled(@, reply,
                           IF ~reply.ok THEN Throw(reply.error)
                           ELSE LET Attributes == reply.body.Attributes
                                    item == unmarshall(IF Attributes = <<>> THEN << <<>> >>
                                                       ELSE Attributes)
                                IN  Return(orm_postprocessFromMarshall(item, schema)))]
  /\ UNCHANGED <<schema, config, clock, data, thrown, wire, native, compiled,
               position, invoked, heap>>

\* the write request of one batchWrite entry of the refactored class, or
\* Thrown: every entry that is not a put is taken for a delete
orm_writeRequest(req) ==
  IF req.type = Str("put")
  THEN LET pre == IF req.item = <<>> THEN undefined
                  ELSE preprocessForMarshall(Obj(req.item[1]))
           m == IF pre.k = "throw" THEN pre ELSE marshall(pre, TRUE)
       IN  IF m.k = "throw" THEN m
           ELSE [k |-> "request", v |-> [PutRequest |-> [Item |-> m.v]]]
  ELSE LET m == marshall(IF req.key = <<>> THEN undefined ELSE Obj(req.key[1]), FALSE)
       IN  IF m.k = "throw" THEN m
           ELSE [k |-> "request", v |-> [DeleteRequest |-> [Key |-> m.v]]]

orm_batchWrite(c, requests) ==
  /\ calls[c].pc = "idle"
  /\ LET results == [i \in 1..Len(requests) |-> orm_writeRequest(requests[i])]
         writeRequests == [i \in 1..Len(requests) |-> results[i].v]
         command ==
           [cmd |-> "BatchWriteItemCommand",
            input |-> [RequestItems |-> <<[key |-> config.tableName, val |-> writeRequests]>>]]
         call == NewCall("orm", "batchWrite", [requests |-> requests], <<>>, <<>>)
     IN  calls' = [calls EXCEPT ![c] =
                     IF FirstThrown(results).k = "throw"
                     THEN Failed(call, FirstThrown(results).v)
                     ELSE Sent(call, command)]
  /\ UNCHANGED <<schema, config, clock, data, thrown, wire, native, compiled,
               position, invoked, heap>>

\* batchWrite after `await this.client.send(command)`
orm_batchWrite_resume(c) ==
  /\ Awaits(c, "orm", "batchWrite")
  /\ \E reply \in Replies(calls[c].requests[1]) :
       calls' = [calls EXCEPT ![c] =
                   Settled(@, reply,
                           IF reply.ok THEN Return(undefined) ELSE Throw(reply.error))]
  /\ UNCHANGED <<schema, config, clock, data, thrown, wire, native, compiled,
               position, invoked, heap>>

\* the result of query and scan of the refactored class from a response
orm_pageOf(body, s) ==
  Obj(<<[key |-> "items",
         val |-> Arr(Map(IF body.Items = <<>> THEN <<>> ELSE body.Items[1],
                         LAMBDA item : orm_postprocessFromMarshall(unmarshall(<<item>>), s)))],
        [key |-> "lastEvaluatedKey",
         val |-> IF body.LastEvaluatedKey = <<>> THEN undefined
                 ELSE unmarshall(body.LastEvaluatedKey)]>>)

orm_query(c, conditions, options) ==
  /\ calls[c].pc = "idle"
  /\ \E built \in {buildConditionExpression(conditions)} :
     \E pre \in {preprocessForMarshall(Obj(built.attributeValues))} :
     \E marshalledValues \in {IF pre.k = "throw" THEN pre ELSE marshall(pre, TRUE)} :
     \E start \in {startKey(options)} :
       LET command ==
             [cmd |-> "QueryCommand",
              input |-> [TableName |-> config.tableName,
                         KeyConditionExpression |-> built.expression,
                         ExpressionAttributeNames |-> built.attributeNames,
                         ExpressionAttributeValues |->
                           IF Len(marshalledValues.v) > 0 THEN <<marshalledValues.v>> ELSE <<>>,
                         Limit |-> options.limit,
                         ScanIndexForward |-> options.scanIndexForward,
                         ExclusiveStartKey |-> start.v,
                         IndexName |-> options.indexName]]
           call == NewCall("orm", "query", [conditions |-> conditions, options |-> options],
                           <<>>, <<>>)
       IN  calls' = [calls EXCEPT ![c] =
                       IF marshalledValues.k = "throw" THEN Failed(call, marshalledValues.v)
                       ELSE IF start.k = "throw" THEN Failed(call, start.v)
                       ELSE Sent(call, command)]
  /\ UNCHANGED <<schema, config, clock, data, thrown, wire, native, compiled,
               position, invoked, heap>>

\* query after `await this.client.send(command)`
orm_query_resume(c) ==
  /\ Awaits(c, "orm", "query")
  /\ \E reply \in Replies(calls[c].requests[1]) :
       calls' = [calls EXCEPT ![c] =
                   Settled(@, reply,
                           IF reply.ok THEN Return(orm_pageOf(reply.body, schema))
                           ELSE Throw(reply.error))]
  /\ UNCHANGED <<schema, config, clock, data, thrown, wire, native, compiled,
               position, invoked, heap>>

orm_scan(c, options) ==
  /\ calls[c].pc = "idle"
  /\ \E start \in {startKey(options)} :
       LET command ==
             [cmd |-> "ScanCommand",
              input |-> [TableName |-> config.tableName,
                         Limit |-> options.limit,
                         ExclusiveStartKey |-> start.v,
                         IndexName |-> options.indexName,
                         Segment |-> options.segment,
                         TotalSegments |-> options.totalSegments]]
           call == NewCall("orm", "scan", [options |-> options], <<>>, <<>>)
       IN  calls' = [calls EXCEPT ![c] =
                       IF start.k = "throw" THEN Failed(call, start.v)
                       ELSE Sent(call, command)]
  /\ UNCHANGED <<schema, config, clock, data, thrown, wire, native, compiled,
               position, invoked, heap>>

\* scan after `await this.client.send(command)`
orm_scan_resume(c) ==
  /\ Awaits(c, "orm", "scan")
  /\ \E reply \in Replies(calls[c].requests[1]) :
       calls' = [calls EXCEPT ![c] =
                   Settled(@, reply,
                           IF reply.ok THEN Return(orm_pageOf(reply.body, schema))
                           ELSE Throw(reply.error))]
  /\ UNCHANGED <<schema, config, clock, data, thrown, wire, native, compiled,
               position, invoked, heap>>

orm_batchGet(c, keys) ==
  /\ calls[c].pc = "idle"
  /\ \E requestItems \in {Map(keys, LAMBDA key : marshall(Obj(key), FALSE))} :
       LET command ==
             [cmd |-> "BatchGetItemCommand",
              input |-> [RequestItems |->
                           <<[key |-> config.tableName,
                              val |-> [Keys |-> Map(requestItems, LAMBDA m : m.v)]]>>]]
           call == NewCall("orm", "batchGet", [keys |-> keys], <<>>, <<>>)
       IN  calls' = [calls EXCEPT ![c] =
                       IF FirstThrown(requestItems).k = "throw"
                       THEN Failed(call, FirstThrown(requestItems).v)
                       ELSE Sent(call, command)]
  /\ UNCHANGED <<schema, config, clock, data, thrown, wire, native, compiled,
               position, invoked, heap>>

\* batchGet after `await this.client.send(command)`
orm_batchGet_resume(c) ==
  /\ Awaits(c, "orm", "batchGet")
  /\ \E reply \in Replies(calls[c].requests[1]) :
       calls' = [calls EXCEPT ![c] =
                   Settled(@, reply,
                           IF reply.ok
                           THEN Return(Arr(Map(responsesFor(reply.body, config.tableName),
                                               LAMBDA item :
                                                 orm_postprocessFromMarshall(
                                                   unmarshall(<<item>>), schema))))
                           ELSE Throw(reply.error))]
  /\ UNCHANGED <<schema, config, clock, data, thrown, wire, native, compiled,
               position, invoked, heap>>

(***************************************************************************)
(* The access layer under any caller and any transport                     *)
(***************************************************************************)
\* the caller's own await ends: it has the outcome and may call again
caller_resume(c) ==
  /\ calls[c].pc = "done"
  /\ calls' = [calls EXCEPT ![c] = Idle]
  /\ heap' = [heap EXCEPT ![c] = NoObject]
  /\ UNCHANGED <<schema, config, clock, data, thrown, wire, native, compiled,
               position, invoked>>

\* the key records passed to the refactored class
KeyRecords == {<<[key |-> "id", val |-> v]>> : v \in KeyValues}

Init ==
  /\ schema \in Schemas
  /\ config \in Configs
  /\ calls = [c \in CallIds |-> Idle]
  /\ clock = 0
  /\ data = <<>>
  /\ thrown = NoError
  /\ wire = <<>>
  /\ native = <<>>
  /\ compiled = <<>>
  /\ position = 0
  /\ invoked = <<>>
  /\ heap = [c \in CallIds |-> NoObject]

Next ==
  \E c \in CallIds :
    \/ \E item \in Items : create(c, item)
    \/ create_resume(c)
    \/ \E partitionKey \in KeyValues : get(c, partitionKey, undefined)
    \/ get_resume(c)
    \/ \E partitionKey \in KeyValues : delete(c, partitionKey, undefined)
    \/ delete_resume(c)
    \/ \E updates \in Updates : update(c, Str("123"), undefined, updates)
    \/ update_resume(c)
    \/ \E operations \in SeqsUpTo(BatchOperations, MaxOps) : batchWrite(c, operations)
    \/ batchWrite_resume(c)
    \/ \E partitionKeyValue \in KeyValues, options \in Options : query(c, partitionKeyValue, options)
    \/ query_resume(c)
    \/ \E options \in Options : scan(c, options)
    \/ scan_resume(c)
    \/ \E keys \in SeqsUpTo({[partitionKey |-> v, sortKey |-> undefined] : v \in KeyValues}, MaxOps) :
         batchGet(c, keys)
    \/ batchGet_resume(c)
    \/ \E item \in Items : orm_create(c, item)
    \/ orm_create_resume(c)
    \/ \E key \in KeyRecords : orm_get(c, key)
    \/ orm_get_resume(c)
    \/ \E key \in KeyRecords : orm_delete(c, key)
    \/ orm_delete_resume(c)
    \/ \E updates \in Updates : orm_update(c, <<[key |-> "id", val |-> Str("123")]>>, updates)
    \/ orm_update_resume(c)
    \/ \E requests \in SeqsUpTo(BatchRequests, MaxOps) : orm_batchWrite(c, requests)
    \/ orm_batchWrite_resume(c)
    \/ \E conditions \in ConditionLists, options \in Options : orm_query(c, conditions, options)
    \/ orm_query_resume(c)
    \/ \E options \in Options : orm_scan(c, options)
    \/ orm_scan_resume(c)
    \/ \E keys \in SeqsUpTo(KeyRecords, MaxOps) : orm_batchGet(c, keys)
    \/ orm_batchGet_resume(c)
    \/ caller_resume(c)

Spec == Init /\ [][Next]_vars

(***************************************************************************)
(* The validator on its own: validateSchema applied to a record            *)
(***************************************************************************)
Pending == [name |-> "pending"]

InitValidate ==
  /\ schema \in Schemas
  /\ config \in Configs
  /\ calls = [c \in CallIds |-> Idle]
  /\ clock = 0
  /\ data \in Items
  /\ thrown = Pending
  /\ wire = <<>>
  /\ native = <<>>
  /\ compiled = <<>>
  /\ position = 0
  /\ invoked = <<>>
  /\ heap = [c \in CallIds |-> NoObject]

\* try { validateSchema(data, schema) } catch (e) { thrown = e }
validateSchema_call ==
  /\ thrown = Pending
  /\ thrown' = validateSchema(data, schema)
  /\ UNCHANGED <<schema, config, calls, clock, data, wire, native, compiled,
               position, invoked, heap>>

NextValidate == validateSchema_call

SpecValidate == InitValidate /\ [][NextValidate]_vars

(***************************************************************************)
(* Properties                                                              *)
(***************************************************************************)
\* the schema fields, by name, whose Field the value of `record` violates
Violations(record, s) ==
  {s[i].name : i \in {j \in 1..Len(s) :
                        validateField(Get(record, s[j].name), s[j].def, s[j].name) # NoError}}

\* the call ended by throwing a ValidationError before any request
FailedValidation(call) ==
  /\ call.pc = "done"
  /\ call.outcome.kind = "throw"
  /\ call.outcome.value.name = "ValidationError"
  /\ call.requests = <<>>
  /\ call.response = <<>>

\* C1: whenever the record obtained by default-filling the input of create
\* violates the schema (the defaults themselves included), create fails
\* with a ValidationError and no request is handed to the transport.
C1_CreateValidatesFilledRecord ==
  \A c \in CallIds :
    (calls[c].op = "create" /\ calls[c].pc # "idle") =>
      \A t \in 0..clock :
        (Violations(applyDefaults(calls[c].args.item, schema, t).item, schema) # {})
          => FailedValidation(calls[c])

\* a create whose input passes the schema as given, and whose default-filled
\* record does not, has failed
C1_Witness ==
  \E c \in CallIds :
    /\ calls[c].op = "create"
    /\ calls[c].cls = "orm"
    /\ Violations(calls[c].args.item, schema) = {}
    /\ Violations(calls[c].locals.processedItem, schema) = {"name"}
    /\ FailedValidation(calls[c])

\* the fields of an update map that are schema fields and carry a value
\* their Field rejects
UpdateViolations(updates, s) ==
  {updates[i].key : i \in {j \in 1..Len(updates) :
      /\ updates[j].key \in SchemaNames(s)
      /\ updates[j].val # undefined
      /\ validateField(updates[j].val, SchemaField(s, updates[j].key), updates[j].key)
           # NoError}}

\* C2: update fails with a ValidationError and sends no request whenever a
\* supplied field that is a schema field violates its Field, and no update
\* fails validation for a schema field absent from the update map.
C2_UpdateValidatesSupplied ==
  \A c \in CallIds :
    (calls[c].op = "update" /\ calls[c].pc # "idle") =>
      /\ (UpdateViolations(calls[c].args.updates, schema) # {})
           => FailedValidation(calls[c])
      /\ (UpdateViolations(calls[c].args.updates, schema) = {})
           => ~ ( /\ calls[c].outcome.kind = "throw"
                  /\ calls[c].outcome.value.name = "ValidationError" )

\* C3: a call that passes its local checks hands exactly one request to the
\* transport, a call that fails locally hands none, and a failed request is
\* never sent a second time.
C3_OneRequestPerCall ==
  \A c \in CallIds :
    /\ calls[c].pc = "idle" => calls[c].requests = <<>>
    /\ calls[c].pc = "awaiting" => Len(calls[c].requests) = 1
    /\ calls[c].pc = "done" =>
         IF calls[c].response = <<>>
         THEN calls[c].outcome.kind = "throw" /\ calls[c].requests = <<>>
         ELSE Len(calls[c].requests) = 1

\* a query whose request the transport failed: one request, the failure
\* propagated
C3_Witness ==
  \E c \in CallIds :
    /\ calls[c].op = "query"
    /\ calls[c].pc = "done"
    /\ calls[c].response # <<>>
    /\ ~calls[c].response[1].ok
    /\ calls[c].outcome = Throw(calls[c].response[1].error)
    /\ Len(calls[c].requests) = 1

\* the number of times the generator of fieldName was invoked by the call
Invocations(call, fieldName) ==
  Cardinality({j \in 1..Len(call.gens) : call.gens[j] = fieldName})

\* each field of the filled record of a create call is the input's value,
\* or the default when the input has none; a generator ran once for each
\* field it filled and for no other
C4_Filled ==
  \A c \in CallIds :
    (calls[c].op = "create" /\ calls[c].pc # "idle") =>
      \A i \in 1..Len(schema) :
        LET fieldName == schema[i].name
            default == schema[i].def.default
            given == Get(calls[c].args.item, fieldName)
            filled == Get(calls[c].locals.processedItem, fieldName)
        IN  IF given # undefined \/ default = undefined
            THEN filled = given /\ Invocations(calls[c], fieldName) = 0
            ELSE IF typeof(default) # "function"
            THEN filled = default /\ Invocations(calls[c], fieldName) = 0
            ELSE /\ Invocations(calls[c], fieldName) = 1
                 /\ \E t \in 0..clock : filled = InvokeDefault(default, t)

\* the generators run when create is called, one invocation after another,
\* and at no other step
C4_Invoked ==
  \A c \in CallIds :
    IF calls[c].pc = "idle" /\ calls'[c].op = "create"
    THEN /\ clock' = clock + Len(calls'[c].gens)
         /\ \A j \in 1..Len(calls'[c].gens) :
              Get(calls'[c].locals.processedItem, calls'[c].gens[j])
                = InvokeDefault(SchemaField(schema, calls'[c].gens[j]).default,
                                clock + j - 1)
    ELSE clock' = clock

\* C4: create applies a field's default exactly when the field is absent
\* from the input (or undefined); a generator default is invoked once per
\* create call per missing field, at that call and never when the schema is
\* declared, so two calls omitting the field make two invocations.
C4_DefaultsWhenAbsent ==
  /\ clock = 0
  /\ []C4_Filled
  /\ [][C4_Invoked]_vars

\* a second create that omits createdAt got the value of the generator's
\* second invocation
C4_Witness ==
  \E c \in CallIds :
    /\ calls[c].op = "create"
    /\ calls[c].pc = "done"
    /\ ~hasOwnProperty(calls[c].args.item, "createdAt")
    /\ calls[c].gens = <<"createdAt">>
    /\ Get(calls[c].locals.processedItem, "createdAt") = Date(1)
    /\ clock = 2

\* C5: a create that succeeds returns the default-filled input, every input
\* field unchanged and nothing taken from the response; its one request
\* names the configured table and carries the wire encoding of every input
\* field.
C5_CreateReturnsFilledInput ==
  \A c \in CallIds :
    (calls[c].op = "create" /\ calls[c].pc # "idle") =>
      LET item == calls[c].args.item
          supplied == {i \in 1..Len(item) : item[i].val # undefined}
      IN  /\ calls[c].requests # <<>> =>
               /\ calls[c].requests[1].cmd = "PutItemCommand"
               /\ calls[c].requests[1].input.TableName = config.tableName
               /\ \A i \in supplied :
                    /\ hasOwnProperty(calls[c].requests[1].input.Item, item[i].key)
                    /\ Get(calls[c].requests[1].input.Item, item[i].key)
                         = convertToAttr(preprocessForMarshall(item[i].val), TRUE).v
          /\ calls[c].outcome.kind = "return" =>
               /\ calls[c].outcome.value.k = "Object"
               /\ \A i \in supplied :
                    Get(calls[c].outcome.value.v, item[i].key) = item[i].val
               /\ \A key \in Keys(calls[c].outcome.value.v) :
                    \/ hasOwnProperty(item, key)
                    \/ /\ key \in SchemaNames(schema)
                       /\ SchemaField(schema, key).default # undefined

\* a create returned its input although the response carried the attributes
\* of another item
C5_Witness ==
  \E c \in CallIds :
    /\ calls[c].op = "create"
    /\ calls[c].cls = "orm"
    /\ calls[c].pc = "done"
    /\ calls[c].response # <<>>
    /\ calls[c].response[1].ok
    /\ calls[c].response[1].body.Attributes = <<Adam>>
    /\ calls[c].outcome.kind = "return"
    /\ Get(calls[c].outcome.value.v, "name") = Str("Jo")
    /\ Get(calls[c].args.item, "name") = Str("Jo")

\* C6: an update whose response carries no attributes fails with an error
\* instead of returning an item.
C6_UpdateWithoutAttributesFails ==
  \A c \in CallIds :
    ( /\ calls[c].op = "update"
      /\ calls[c].pc = "done"
      /\ calls[c].response # <<>>
      /\ calls[c].response[1].ok
      /\ calls[c].response[1].body.Attributes = <<>> )
      => calls[c].outcome.kind = "throw"

\* the tag, item and key of each entry of a batchWrite call
Entries(call) ==
  IF call.cls = "index"
  THEN [i \in 1..Len(call.args.operations) |->
          [tag |-> call.args.operations[i].operation,
           item |-> call.args.operations[i].item,
           key |-> call.args.operations[i].key]]
  ELSE [i \in 1..Len(call.args.requests) |->
          [tag |-> call.args.requests[i].type,
           item |-> call.args.requests[i].item,
           key |-> call.args.requests[i].key]]

\* the entry is a put with an item, or a delete with a key
Supported(entry) ==
  \/ entry.tag = Str("put") /\ entry.item # <<>>
  \/ entry.tag = Str("delete") /\ entry.key # <<>>

\* C7: a batchWrite with an entry that is neither a put nor a delete fails
\* with a local error and sends nothing.
C7_BatchRejectsUnsupported ==
  \A c \in CallIds :
    ( /\ calls[c].op = "batchWrite"
      /\ calls[c].pc # "idle"
      /\ \E i \in 1..Len(Entries(calls[c])) :
           Entries(calls[c])[i].tag \notin {Str("put"), Str("delete")} )
      => /\ calls[c].pc = "done"
         /\ calls[c].outcome.kind = "throw"
         /\ calls[c].requests = <<>>
         /\ calls[c].response = <<>>

\* C8: a batchWrite with a put entry whose item violates the schema sends
\* no batch request and fails, with a ValidationError when every entry
\* before that put is a valid put or a delete.
C8_BatchValidatesPuts ==
  \A c \in CallIds :
    (calls[c].op = "batchWrite" /\ calls[c].pc # "idle") =>
      \A i \in 1..Len(Entries(calls[c])) :
        LET entries == Entries(calls[c])
            invalid(j) == /\ entries[j].tag = Str("put")
                          /\ entries[j].item # <<>>
                          /\ Violations(entries[j].item[1], schema) # {}
        IN  invalid(i) =>
              /\ calls[c].pc = "done"
              /\ calls[c].outcome.kind = "throw"
              /\ calls[c].requests = <<>>
              /\ (\A j \in 1..(i - 1) : Supported(entries[j]) /\ ~invalid(j))
                   => FailedValidation(calls[c])

\* C9: a get whose response has no item returns null, and a delete whose
\* request the transport resolved returns nothing, every time it is called.
C9_GetNullDeleteVoid ==
  \A c \in CallIds :
    (calls[c].pc = "done" /\ calls[c].response # <<>>) =>
      /\ ( /\ calls[c].op = "get"
           /\ calls[c].response[1].ok
           /\ calls[c].response[1].body.Item = <<>> )
           => calls[c].outcome = Return(null)
      /\ (calls[c].op = "delete" /\ calls[c].response[1].ok)
           => calls[c].outcome = Return(undefined)

\* a get of a key the store does not hold has returned null
C9_Witness ==
  \E c \in CallIds :
    /\ calls[c].op = "get"
    /\ calls[c].cls = "orm"
    /\ calls[c].pc = "done"
    /\ calls[c].response # <<>>
    /\ calls[c].response[1].ok
    /\ calls[c].response[1].body.Item = <<>>
    /\ calls[c].outcome = Return(null)

\* the message of the error thrown for a required field that has no value
RequiredMessage(fieldName) == "Field '" \o fieldName \o "' is required"

\* the required fields of s, in schema order, that record lacks or has null
MissingRequired(record, s) ==
  SelectSeq([i \in 1..Len(s) |-> s[i].name],
            LAMBDA n : /\ Truthy(SchemaField(s, n).required)
                       /\ Get(record, n) \in {undefined, null})

\* the words an error message can put between its quotes
Named == UNION {SchemaNames(s) \cup {s[i].def.type : i \in 1..Len(s)} : s \in Schemas}

\* C10: validateSchema raises a ValidationError whenever a required field
\* is absent from the record or null in it, and a required-field error
\* names a field that is required and has no value: the first one in schema
\* order when no field that has a value violates its Field.
C10_RequiredFieldRaises ==
  thrown # Pending =>
    LET missing == MissingRequired(data, schema)
    IN  /\ missing # <<>> => thrown.name = "ValidationError"
        /\ thrown.name = "ValidationError" =>
             \A n \in Named :
               thrown.message = RequiredMessage(n)
                 => \E i \in 1..Len(missing) : missing[i] = n
        /\ ( /\ missing # <<>>
             /\ \A n \in Violations(data, schema) :
                  \E i \in 1..Len(missing) : missing[i] = n )
             => thrown.message = RequiredMessage(missing[1])

\* a record whose id is null was refused with the error naming id
C10_Witness ==
  /\ thrown # Pending
  /\ Get(data, "id") = null
  /\ thrown.name = "ValidationError"
  /\ thrown.message = RequiredMessage("id")

(***************************************************************************)
(* The transcoder on its own: a record is encoded the way create encodes   *)
(* it, and the attribute map is decoded the way get decodes it             *)
(***************************************************************************)
\* the schema of the usage example, kept to one field of each kind
recordSchema ==
  << [name |-> "id", def |-> field_string([NoOptions EXCEPT !.required = Bool(TRUE)])],
     [name |-> "age", def |-> field_number(NoOptions)],
     [name |-> "isActive", def |-> field_boolean([NoOptions EXCEPT !.default = Bool(TRUE)])],
     [name |-> "createdAt", def |-> field_date([NoOptions EXCEPT !.default = Fn("now")])],
     [name |-> "tags", def |-> field_stringSet(NoOptions)],
     [name |-> "metadata", def |-> field_object(NoOptions)],
     [name |-> "scores", def |-> field_array(NoOptions)] >>

\* records of recordSchema: every field holds a value of its kind
Records ==
  { Object(<<[key |-> "id", val |-> Str("1")], [key |-> "age", val |-> age],
             [key |-> "isActive", val |-> isActive], [key |-> "createdAt", val |-> createdAt],
             [key |-> "tags", val |-> tags], [key |-> "metadata", val |-> metadata],
             [key |-> "scores", val |-> scores]>>) :
      age \in {Absent, Num(18), Half(18)},
      isActive \in {Absent, Bool(TRUE)},
      createdAt \in {Absent, Date(1)},
      tags \in {Absent, SetOf(<<>>), SetOf(<<Str("a"), Str("b")>>)},
      metadata \in {Absent, Obj(<<>>),
                    Obj(<<[key |-> "city", val |-> Str("Oslo")]>>),
                    Obj(<<[key |-> "seenAt", val |-> Date(2)]>>),
                    Obj(<<[key |-> "createdAt", val |-> Date(2)]>>),
                    Obj(<<[key |-> "createdAt", val |-> Str("soon")]>>),
                    Obj(<<[key |-> "tags", val |-> Arr(<<Str("x"), Str("x")>>)]>>),
                    Obj(<<[key |-> "labels", val |-> SetOf(<<Str("a")>>)]>>)},
      scores \in {Absent, Arr(<<>>), Arr(<<Num(1), Half(2)>>), Arr(<<Date(2)>>),
                  Arr(<<SetOf(<<Str("a")>>)>>)} }

NotYet == [k |-> "pending"]

InitTranscode ==
  /\ schema = recordSchema
  /\ config \in Configs
  /\ calls = [c \in CallIds |-> Idle]
  /\ clock = 0
  /\ data \in Records
  /\ thrown = NoError
  /\ wire = NotYet
  /\ native = NotYet
  /\ compiled = <<>>
  /\ position = 0
  /\ invoked = <<>>
  /\ heap = [c \in CallIds |-> NoObject]

\* marshall(this.preprocessForMarshall(data), options), as create sends it
toWire(removeUndefinedValues) ==
  /\ wire = NotYet
  /\ LET pre == preprocessForMarshall(Obj(data))
     IN  wire' = IF pre.k = "throw" THEN pre ELSE marshall(pre, removeUndefinedValues)
  /\ UNCHANGED <<schema, config, calls, clock, data, thrown, native, compiled,
               position, invoked, heap>>

\* this.postprocessFromMarshall(unmarshall(Item)) of src/index.ts
fromWire ==
  /\ wire.k = "wire"
  /\ native = NotYet
  /\ native' = postprocessFromMarshall(unmarshall(<<wire.v>>), schema)
  /\ UNCHANGED <<schema, config, calls, clock, data, thrown, wire, compiled,
               position, invoked, heap>>

\* this.postprocessFromMarshall(unmarshall(Item)) of the refactored class
orm_fromWire ==
  /\ wire.k = "wire"
  /\ native = NotYet
  /\ native' = orm_postprocessFromMarshall(unmarshall(<<wire.v>>), schema)
  /\ UNCHANGED <<schema, config, calls, clock, data, thrown, wire, compiled,
               position, invoked, heap>>

NextTranscode ==
  \/ \E removeUndefinedValues \in BOOLEAN : toWire(removeUndefinedValues)
  \/ fromWire
  \/ orm_fromWire

SpecTranscode == InitTranscode /\ [][NextTranscode]_vars

\* equality of native values: arrays by position, objects by key, Sets as
\* unordered collections
RECURSIVE SameNative(_, _)
SameNative(a, b) ==
  IF a.k # b.k THEN FALSE
  ELSE CASE a.k = "Set" ->
              {a.v[i] : i \in 1..Len(a.v)} = {b.v[i] : i \in 1..Len(b.v)}
         [] a.k = "Array" ->
              /\ Len(a.v) = Len(b.v)
              /\ \A i \in 1..Len(a.v) : SameNative(a.v[i], b.v[i])
         [] a.k = "Object" ->
              /\ Keys(a.v) = Keys(b.v)
              /\ \A key \in Keys(a.v) : SameNative(Get(a.v, key), Get(b.v, key))
         [] OTHER -> a = b

\* C11: decoding the encoding of a record compatible with the schema gives
\* the record back, for every field kind, Sets compared as unordered
\* collections, Dates and Sets inside arrays and objects included.
C11_RoundTrip ==
  native # NotYet => SameNative(native, Obj(data))

\* C19: decoding converts top-level fields only: a top-level field typed
\* set holding an array becomes a Set, a top-level field typed date holding
\* a string becomes a Date, and every other field and every nested value is
\* what unmarshall gave, whatever its key.
C19_TopLevelOnly ==
  (native # NotYet /\ wire.k = "wire") =>
    LET raw == unmarshall(<<wire.v>>).v
    IN  /\ native.k = "Object"
        /\ Len(native.v) = Len(raw)
        /\ \A i \in 1..Len(raw) :
             /\ native.v[i].key = raw[i].key
             /\ native.v[i].val =
                  IF TypeIn(schema, raw[i].key) = "set" /\ raw[i].val.k = "Array"
                  THEN newSet(raw[i].val.v)
                  ELSE IF TypeIn(schema, raw[i].key) = "date" /\ typeof(raw[i].val) = "string"
                  THEN newDate(raw[i].val.v)
                  ELSE raw[i].val

(***************************************************************************)
(* The condition compiler on its own: buildConditionExpression applied to  *)
(* a list of conditions                                                    *)
(***************************************************************************)
\* a list has at most MaxConditions conditions
MaxConditions == 50

\* one condition of every operator; `in` with lists of 0, 2 and 3 values and
\* with a value that is not a list, `between` with and without value2
Predicates ==
  << Condition("age", "=", Num(18), undefined),
     Condition("name", "in", Arr(<<Str("Jo"), Str("Ada")>>), undefined),
     Condition("age", "<", Num(18), undefined),
     Condition("age", "between", Num(18), Num(30)),
     Condition("age", "<=", Num(18), undefined),
     Condition("name", "in", Str("Jo"), undefined),
     Condition("age", ">", Num(18), undefined),
     Condition("name", "begins_with", Str("A"), undefined),
     Condition("age", ">=", Num(18), undefined),
     Condition("name", "in", Arr(<<>>), undefined),
     Condition("name", "contains", Str("d"), undefined),
     Condition("age", "between", Num(18), undefined),
     Condition("id", "in", Arr(<<Str("1"), Str("2"), Str("3")>>), undefined) >>

\* the lists compiled: every list of at most two of the predicates, and for
\* every greater length the lists that run through the predicates in order
\* from any starting predicate
PredicateLists ==
  SeqsUpTo({Predicates[i] : i \in 1..Len(Predicates)}, 2)
    \cup { [i \in 1..n |-> Predicates[((i + k) % Len(Predicates)) + 1]] :
             n \in 3..MaxConditions, k \in 1..Len(Predicates) }

InitCompile ==
  /\ schema = userSchema
  /\ config \in Configs
  /\ calls = [c \in CallIds |-> Idle]
  /\ clock = 0
  /\ data \in PredicateLists
  /\ thrown = NoError
  /\ wire = <<>>
  /\ native = <<>>
  /\ compiled = NotYet
  /\ position = 0
  /\ invoked = <<>>
  /\ heap = [c \in CallIds |-> NoObject]

\* compiled = buildConditionExpression(data)
buildConditionExpression_call ==
  /\ compiled = NotYet
  /\ compiled' = buildConditionExpression(data)
  /\ UNCHANGED <<schema, config, calls, clock, data, thrown, wire, native,
               position, invoked, heap>>

NextCompile == buildConditionExpression_call

SpecCompile == InitCompile /\ [][NextCompile]_vars

\* the value aliases section 4.4 allocates to the predicate at position
\* index, with the value each stands for
Allocated(condition, index) ==
  LET valueKey == ":value" \o ToString(index)
  IN  CASE condition.operator = "between" ->
             {[key |-> valueKey, val |-> condition.value],
              [key |-> valueKey \o "_2", val |-> condition.value2]}
        [] condition.operator = "in" /\ condition.value.k = "Array" ->
             {[key |-> valueKey \o "_" \o ToString(j - 1), val |-> condition.value.v[j]] :
                j \in 1..Len(condition.value.v)}
        [] condition.operator = "in" ->
             {[key |-> valueKey \o "_0", val |-> condition.value]}
        [] OTHER -> {[key |-> valueKey, val |-> condition.value]}

\* the number of value aliases section 4.4 gives a predicate
AliasCount(condition) ==
  CASE condition.operator = "between" -> 2
    [] condition.operator = "in" /\ condition.value.k = "Array" -> Len(condition.value.v)
    [] OTHER -> 1

\* C12: the name alias and the value aliases of the predicate at one
\* position differ from every alias of the predicate at any other position:
\* the tables hold one entry per alias allocated, none overwritten, and
\* each alias still stands for the value its own predicate gave it.
C12_AliasesInjective ==
  compiled # NotYet =>
    /\ Len(compiled.attributeNames) = Len(data)
    /\ Cardinality(Keys(compiled.attributeNames)) = Len(data)
    /\ Len(compiled.attributeValues)
         = Cardinality(UNION {{<<i, n>> : n \in 1..AliasCount(data[i])} : i \in 1..Len(data)})
    /\ Cardinality(Keys(compiled.attributeValues)) = Len(compiled.attributeValues)
    /\ \A i \in 1..Len(data) :
         /\ Get(compiled.attributeNames, "#field" \o ToString(i - 1)) = Str(data[i].field)
         /\ \A a \in Allocated(data[i], i - 1) :
              /\ Get(compiled.attributeValues, a.key) = a.val
              /\ \A j \in 1..Len(data) :
                   j # i => \A b \in Allocated(data[j], j - 1) : b.key # a.key

\* a list of 50 conditions is compiled and the `in` at position 1 and the
\* condition at position 11 both have their value aliases in the table
C12_Witness ==
  /\ compiled # NotYet
  /\ Len(data) = 50
  /\ data[2].operator = "in"
  /\ Get(compiled.attributeValues, ":value1_1") = Str("Ada")
  /\ hasOwnProperty(compiled.attributeValues, ":value11")
  /\ hasOwnProperty(compiled.attributeValues, ":value49")

\* C13: in the value alias table a between contributes exactly :value{i}
\* and :value{i}_2, an in over a list exactly :value{i}_0 .. one per member
\* of the list, and an in over a value that is not a list exactly
\* :value{i}_0.
C13_AliasCounts ==
  compiled # NotYet =>
    /\ Keys(compiled.attributeValues)
         = UNION {{a.key : a \in Allocated(data[i], i - 1)} : i \in 1..Len(data)}
    /\ \A i \in 1..Len(data) :
         LET mine == {a.key : a \in Allocated(data[i], i - 1)} \cap Keys(compiled.attributeValues)
         IN  /\ Cardinality(mine) = AliasCount(data[i])
             /\ data[i].operator = "between" => Cardinality(mine) = 2
             /\ (data[i].operator = "in" /\ data[i].value.k = "Array")
                  => Cardinality(mine) = Len(data[i].value.v)
             /\ (data[i].operator = "in" /\ data[i].value.k # "Array")
                  => /\ Cardinality(mine) = 1
                     /\ Get(compiled.attributeValues, ":value" \o ToString(i - 1) \o "_0")
                          = data[i].value

\* a between, an in over three values and an in over a plain string were
\* compiled in one list
C13_Witness ==
  /\ compiled # NotYet
  /\ \E i, j, l \in 1..Len(data) :
       /\ data[i].operator = "between"
       /\ data[j].operator = "in" /\ data[j].value.k = "Array" /\ Len(data[j].value.v) = 3
       /\ data[l].operator = "in" /\ data[l].value = Str("Jo")
       /\ Get(compiled.attributeValues, ":value" \o ToString(l - 1) \o "_0") = Str("Jo")
       /\ Get(compiled.attributeValues, ":value" \o ToString(j - 1) \o "_2") = Str("3")
       /\ Get(compiled.attributeValues, ":value" \o ToString(i - 1) \o "_2") = data[i].value2

\* the fragment section 4.4 gives the predicate at position index
Fragment(condition, index) ==
  LET alias == "#field" \o ToString(index)
      v == ":value" \o ToString(index)
      n == IF condition.value.k = "Array" THEN Len(condition.value.v) ELSE 1
  IN  CASE condition.operator \in {"=", "<", "<=", ">", ">="} ->
             alias \o " " \o condition.operator \o " " \o v
        [] condition.operator \in {"begins_with", "contains"} ->
             condition.operator \o "(" \o alias \o ", " \o v \o ")"
        [] condition.operator = "between" ->
             alias \o " BETWEEN " \o v \o " AND " \o v \o "_2"
        [] condition.operator = "in" ->
             alias \o " IN ("
               \o join([j \in 1..n |-> v \o "_" \o ToString(j - 1)], ", ") \o ")"

\* C14: the expression of a list of n predicates is its n fragments joined
\* by " AND " in order, fragment i naming its field by #field{i} only, and
\* the name table maps #field{i} to the field of predicate i.
C14_FragmentsJoined ==
  compiled # NotYet =>
    /\ compiled.expression
         = join([i \in 1..Len(data) |-> Fragment(data[i], i - 1)], " AND ")
    /\ compiled.attributeNames
         = [i \in 1..Len(data) |->
              [key |-> "#field" \o ToString(i - 1), val |-> Str(data[i].field)]]

\* the predicate (age, >, 18) compiled to `#field0 > :value0`
C14_Witness ==
  /\ data = <<Condition("age", ">", Num(18), undefined)>>
  /\ compiled # NotYet
  /\ compiled.expression = "#field0 > :value0"
  /\ compiled.attributeNames = <<[key |-> "#field0", val |-> Str("age")]>>
  /\ compiled.attributeValues = <<[key |-> ":value0", val |-> Num(18)]>>


(***************************************************************************)
(* Requests of update, query and scan                                      *)
(***************************************************************************)
\* the calls of `op` that handed a request to the transport
Requested(op) == {c \in CallIds : calls[c].op = op /\ calls[c].requests # <<>>}

\* the calls of `op` the transport answered with a response
Answered(op) ==
  {c \in Requested(op) :
     /\ calls[c].pc = "done"
     /\ calls[c].response # <<>>
     /\ calls[c].response[1].ok}

\* the wire form of one update value
WireOf(value) ==
  LET pre == preprocessForMarshall(value)
  IN  IF pre.k = "throw" THEN pre ELSE convertToAttr(pre, FALSE)

\* the record the class of `call` makes of a wire item
Inbound(call, item) ==
  IF call.cls = "orm"
  THEN orm_postprocessFromMarshall(unmarshall(<<item>>), schema)
  ELSE postprocessFromMarshall(unmarshall(<<item>>), schema)

\* C15: the request of an update of n fields has the expression
\* SET #field0 = :value0, ..., exactly the n name aliases #field{i} for the
\* i-th field name and exactly the n value aliases :value{i} for the i-th
\* value, and asks for the post-update image; the record returned is the
\* inbound transcoding of the image the store supplied.
C15_UpdateRequestShape ==
  /\ \A c \in Requested("update") :
       LET updates == calls[c].args.updates
           n == Len(updates)
           input == calls[c].requests[1].input
           alias(prefix, i) == prefix \o ToString(i - 1)
       IN  /\ input.UpdateExpression
                = "SET " \o join([i \in 1..n |-> alias("#field", i) \o " = " \o alias(":value", i)], ", ")
           /\ input.ExpressionAttributeNames
                = [i \in 1..n |-> [key |-> alias("#field", i), val |-> Str(updates[i].key)]]
           /\ Len(input.ExpressionAttributeValues) = n
           /\ \A i \in 1..n :
                /\ hasOwnProperty(input.ExpressionAttributeValues, alias(":value", i))
                /\ WireOf(updates[i].val).k = "attr"
                /\ Get(input.ExpressionAttributeValues, alias(":value", i)) = WireOf(updates[i].val).v
           /\ input.ReturnValues = "ALL_NEW"
  /\ \A c \in Answered("update") :
       calls[c].response[1].body.Attributes # <<>>
         => calls[c].outcome
              = Return(Inbound(calls[c], calls[c].response[1].body.Attributes[1]))


\* an optional member of the options of a call, or the empty list
Opt(member) == IF member = <<>> THEN <<>> ELSE member[1]

\* the value table of a request, which the refactored class leaves out when
\* it is empty
ValueTable(call) ==
  IF call.cls = "orm"
  THEN Opt(call.requests[1].input.ExpressionAttributeValues)
  ELSE call.requests[1].input.ExpressionAttributeValues

\* C16: the key condition of every query request is an equality of one name
\* alias standing for the configured partition key and one value alias
\* standing for the partition key value given; the filter predicates are
\* compiled into the filter expression, apart from the key condition; each
\* selected field has a name alias of its own, and no two aliases of key,
\* filter and projection are the same.
C16_QueryKeyCondition ==
  \A c \in Requested("query") :
    LET args == calls[c].args
        input == calls[c].requests[1].input
        names == input.ExpressionAttributeNames
        values == ValueTable(calls[c])
        filter == Opt(args.options.filterExpression)
        select == Opt(args.options.select)
        filterResult == buildConditionExpression(filter)
    IN  /\ "partitionKeyValue" \in DOMAIN args
        /\ \E n \in Keys(names), v \in Keys(values) :
             /\ input.KeyConditionExpression = n \o " = " \o v
             /\ Get(names, n) = Str(config.partitionKey)
             /\ Get(values, v) = WireOf(args.partitionKeyValue).v
             /\ ~hasOwnProperty(filterResult.attributeNames, n)
             /\ ~hasOwnProperty(filterResult.attributeValues, v)
        /\ Len(filter) > 0 =>
             /\ input.FilterExpression = Str(filterResult.expression)
             /\ \A i \in 1..Len(filter) :
                  Get(names, filterResult.attributeNames[i].key) = Str(filter[i].field)
        /\ Len(names) = 1 + Len(filter) + Len(select)
        /\ Cardinality(Keys(names)) = Len(names)
        /\ Len(select) > 0 =>
             \E aliases \in [1..Len(select) -> Keys(names)] :
               /\ input.ProjectionExpression = Str(join(aliases, ", "))
               /\ \A i \in 1..Len(select) : Get(names, aliases[i]) = Str(select[i])


\* C17: the result of an answered query or scan holds the items of the one
\* response, transcoded, in the order of the response, holds the count of
\* the items, holds a continuation token exactly when the response carried
\* one, and the call has sent the one request only.
C17_OnePage ==
  \A c \in Answered("query") \cup Answered("scan") :
    LET body == calls[c].response[1].body
        received == Opt(body.Items)
        page == calls[c].outcome.value
    IN  /\ calls[c].outcome.kind = "return"
        /\ Len(calls[c].requests) = 1
        /\ Get(page.v, "items") = Arr([i \in 1..Len(received) |-> Inbound(calls[c], received[i])])
        /\ Get(page.v, "lastEvaluatedKey") # undefined <=> body.LastEvaluatedKey # <<>>
        /\ hasOwnProperty(page.v, "count")
        /\ Get(page.v, "count") = Num(Len(received))


(***************************************************************************)
(* Transport failures                                                      *)
(***************************************************************************)
\* the calls whose request the transport failed
Rejected ==
  {c \in CallIds :
     /\ calls[c].pc = "done"
     /\ calls[c].response # <<>>
     /\ ~calls[c].response[1].ok}

\* C18: a call whose request the transport failed ends by throwing the very
\* error the transport failed with, whatever the operation; it returns
\* nothing and has sent the one request only.
C18_TransportErrorPassedThrough ==
  \A c \in Rejected :
    /\ calls[c].outcome.kind = "throw"
    /\ calls[c].outcome.value = calls[c].response[1].error
    /\ calls[c].outcome.value \in TransportErrors
    /\ Len(calls[c].requests) = 1

\* a create of the refactored class whose put the transport timed out
C18_Witness ==
  \E c \in Rejected :
    /\ calls[c].cls = "orm"
    /\ calls[c].op = "create"
    /\ calls[c].response[1].error.name = "TimeoutError"
    /\ calls[c].outcome = [kind |-> "throw", value |-> calls[c].response[1].error]


(***************************************************************************)
(* The validator on fields that declare bounds                             *)
(***************************************************************************)
\* the lengths and numbers declared as bounds run from 0 to MaxBound
MaxBound == 2

\* a string of each length
Words == <<"", "J", "Jo", "Joe", "Joan", "Joana">>

\* the bounds a field declares: none, or a number of 0..MaxBound
Declared == {undefined} \cup {Num(n) : n \in 0..MaxBound}

\* one-field schemas: a string with minLength and maxLength, a number with
\* min and max
boundedSchemas ==
  { <<[name |-> "code", def |-> field_string([NoOptions EXCEPT !.minLength = m,
                                                               !.maxLength = M])]>> :
      m \in Declared, M \in Declared }
    \cup { <<[name |-> "age", def |-> field_number([NoOptions EXCEPT !.min = m, !.max = M])]>> :
             m \in Declared, M \in Declared }

\* the values validated: strings of length 0..MaxBound + 1, numbers from
\* -1 to MaxBound + 1 and the halves between them
boundedValues ==
  {Str(Words[n + 1]) : n \in 0..(MaxBound + 1)}
    \cup {Num(n) : n \in -1..(MaxBound + 1)}
    \cup {Half(n) : n \in -1..MaxBound}

InitBounds ==
  /\ schema \in boundedSchemas
  /\ config \in Configs
  /\ calls = [c \in CallIds |-> Idle]
  /\ clock = 0
  /\ data \in {<<[key |-> schema[1].name, val |-> value]>> : value \in boundedValues}
  /\ thrown = Pending
  /\ wire = <<>>
  /\ native = <<>>
  /\ compiled = <<>>
  /\ position = 0
  /\ invoked = <<>>
  /\ heap = [c \in CallIds |-> NoObject]

SpecBounds == InitBounds /\ [][NextValidate]_vars

\* C20: once validated, a string shorter than the minLength its field
\* declares or longer than the maxLength it declares, and a number below
\* the min or above the max its field declares, has raised a
\* ValidationError, whatever the bound declared, 0 included.
C20_BoundsEnforced ==
  (thrown # Pending /\ Len(schema) = 1) =>
    LET f == schema[1].def
        value == Get(data, schema[1].name)
        outside ==
          \/ /\ f.type = "string" /\ typeof(value) = "string"
             /\ \/ f.minLength # undefined /\ Len(value.v) < f.minLength.v
                \/ f.maxLength # undefined /\ Len(value.v) > f.maxLength.v
          \/ /\ f.type = "number" /\ value.k = "number"
             /\ \/ f.min # undefined /\ NumKey(value) < NumKey(f.min)
                \/ f.max # undefined /\ NumKey(value) > NumKey(f.max)
    IN  outside => thrown.name = "ValidationError"


(***************************************************************************)
(* The validator field by field: the loop of validateSchema, one           *)
(* validateField a step, with the calls it makes to the `validate`         *)
(* functions of the schema                                                 *)
(***************************************************************************)
\* a schema with a `validate` function on two fields, and the same fields
\* declared in the opposite order
profileSchema ==
  << [name |-> "id", def |-> field_string([NoOptions EXCEPT !.required = Bool(TRUE)])],
     [name |-> "email", def |-> field_string([NoOptions EXCEPT !.minLength = Num(3),
                                                               !.validate = Fn("hasAt")])],
     [name |-> "age", def |-> field_number([NoOptions EXCEPT !.min = Num(0),
                                                             !.validate = Fn("isAdult")])] >>

reversedSchema == [i \in 1..Len(profileSchema) |-> profileSchema[Len(profileSchema) + 1 - i]]

profileSchemas == {profileSchema, reversedSchema}

\* the records validated against them
profileRecords ==
  { Object(<<[key |-> "id", val |-> id], [key |-> "email", val |-> email],
             [key |-> "age", val |-> age]>>) :
      id \in {Absent, Str("1")},
      email \in {Absent, null, Str("a@b"), Str("abc"), Str("ab"), Num(5)},
      age \in {Absent, null, Num(18), Num(17), Half(18), Num(-1), Str("x")} }

InitFields ==
  /\ schema \in profileSchemas
  /\ config \in Configs
  /\ calls = [c \in CallIds |-> Idle]
  /\ clock = 0
  /\ data \in profileRecords
  /\ thrown = Pending
  /\ wire = <<>>
  /\ native = <<>>
  /\ compiled = <<>>
  /\ position = 1
  /\ invoked = <<>>
  /\ heap = [c \in CallIds |-> NoObject]

\* a validateField that calls field.validate before the switch on the type
validateField_invokes_first(value, field, fieldName) ==
  IF value = undefined \/ value = null
  THEN <<>>
  ELSE IF Truthy(field.validate)
  THEN <<[field |-> fieldName, value |-> value]>>
  ELSE <<>>

\* the calls validateField makes to field.validate: one, with the value,
\* when it reaches "Custom validation" and the field has the function
validateField_invokes(value, field, fieldName) ==
  IF Truthy(field.required) /\ (value = undefined \/ value = null)
  THEN <<>>
  ELSE IF value = undefined \/ value = null
  THEN <<>>
  ELSE IF validateType(value, field, fieldName) # NoError
  THEN <<>>
  ELSE IF Truthy(field.validate)
  THEN <<[field |-> fieldName, value |-> value]>>
  ELSE <<>>

\* a loop that validates every field and then throws the first error
validateSchema_step_all ==
  /\ thrown = Pending
  /\ position \in 1..Len(schema)
  /\ LET fieldName == schema[position].name
         value == Get(data, fieldName)
     IN  /\ invoked' = invoked \o validateField_invokes(value, schema[position].def, fieldName)
         /\ thrown' = IF position = Len(schema) THEN validateSchema(data, schema) ELSE Pending
         /\ position' = IF position = Len(schema) THEN position ELSE position + 1
  /\ UNCHANGED <<schema, config, calls, clock, data, wire, native, compiled, heap>>

\* one turn of the loop of validateSchema: validateField on the field at
\* `position`; its throw ends the loop, and the loop returns after the last
\* field
validateSchema_step ==
  /\ thrown = Pending
  /\ position \in 1..Len(schema)
  /\ LET fieldName == schema[position].name
         value == Get(data, fieldName)
         e == validateField(value, schema[position].def, fieldName)
     IN  /\ invoked' = invoked \o validateField_invokes(value, schema[position].def, fieldName)
         /\ thrown' = IF e # NoError THEN e
                      ELSE IF position = Len(schema) THEN NoError
                      ELSE Pending
         /\ position' = IF e # NoError \/ position = Len(schema) THEN position ELSE position + 1
  /\ UNCHANGED <<schema, config, calls, clock, data, wire, native, compiled, heap>>

NextFields == validateSchema_step

SpecFields == InitFields /\ [][NextFields]_vars

\* the error the field at index i of the schema raises for the record
ErrorAt(i) == validateField(Get(data, schema[i].name), schema[i].def, schema[i].name)

\* the indexes of the fields the record violates
Violating == {i \in 1..Len(schema) : ErrorAt(i) # NoError}

\* the index a field has in the schema
IndexOf(fieldName) == CHOOSE i \in 1..Len(schema) : schema[i].name = fieldName

\* the fields validateField has been through: those before `position`, and
\* the one at `position` once the loop has ended
Examined == {i \in 1..Len(schema) : i < position \/ (i = position /\ thrown # Pending)}

\* C21: the outcome of validateSchema is the one error of the first field,
\* in schema order, that the record violates, and no error when it violates
\* none; no field after that first one is examined: no `validate` function
\* of a later field has been called, at any point of the validation.
C21_FailFast ==
  /\ \A j \in 1..Len(invoked) :
       /\ IndexOf(invoked[j].field) \in Examined
       /\ \A i \in Violating : IndexOf(invoked[j].field) <= i
  /\ \A i \in Examined : \A v \in Violating : i <= v
  /\ thrown # Pending =>
       IF Violating = {}
       THEN thrown = NoError /\ Examined = 1..Len(schema)
       ELSE LET first == CHOOSE i \in Violating : \A v \in Violating : i <= v
            IN  /\ thrown = ErrorAt(first)
                /\ thrown.name = "ValidationError"
                /\ position = first
                /\ Examined = 1..first

\* a record that violates two fields was validated: the error is the first
\* field's, and the `validate` function of the second was not called
C21_Witness ==
  /\ thrown # Pending
  /\ schema = profileSchema
  /\ Get(data, "email") = Str("ab")
  /\ Get(data, "age") = Num(17)
  /\ Get(data, "id") = Str("1")
  /\ thrown.message = "Field 'email' must be at least 3 characters"
  /\ invoked = <<>>


\* the field at index i had its `validate` function called
Called(i) == \E j \in 1..Len(invoked) : invoked[j].field = schema[i].name

\* validateField threw for the field at index i
Raised(i) == i = position /\ thrown.name = "ValidationError"

\* C22: the `validate` function of a field is called once, with the value,
\* exactly when the value has passed the check of its kind and of the
\* constraints of its kind; when it returns true the field passes, when it
\* returns a string the error raised has that string as message, and when
\* it returns false the error has the generic message.
C22_CustomRunsLast ==
  \A i \in Examined :
    LET fieldName == schema[i].name
        f == schema[i].def
        value == Get(data, fieldName)
        structural == /\ value \notin {undefined, null}
                      /\ validateType(value, f, fieldName) = NoError
    IN  /\ Called(i) <=> (structural /\ Truthy(f.validate))
        /\ Cardinality({j \in 1..Len(invoked) : invoked[j].field = fieldName}) <= 1
        /\ Called(i) =>
             LET result == Invoke(f.validate, value)
             IN  /\ [field |-> fieldName, value |-> value] \in {invoked[j] : j \in 1..Len(invoked)}
                 /\ result = Bool(TRUE) => ~Raised(i)
                 /\ typeof(result) = "string" => Raised(i) /\ thrown.message = result.v
                 /\ result = Bool(FALSE) =>
                      /\ Raised(i)
                      /\ thrown.message = "Field '" \o fieldName \o "' failed validation"

\* the function of email returned true and the function of age false: the
\* error is the generic one for age
C22_Witness ==
  /\ schema = profileSchema
  /\ Get(data, "email") = Str("a@b")
  /\ Get(data, "age") = Num(17)
  /\ invoked = <<[field |-> "email", value |-> Str("a@b")], [field |-> "age", value |-> Num(17)]>>
  /\ thrown.name = "ValidationError"
  /\ thrown.message = "Field 'age' failed validation"

\* C23: a field that is not required and whose value is absent, undefined
\* or null passes: validateField raises nothing for it and does not call
\* its `validate` function.
C23_OptionalSkipped ==
  \A i \in Examined :
    ( /\ ~Truthy(schema[i].def.required)
      /\ Get(data, schema[i].name) \in {undefined, null} )
      => ~Raised(i) /\ ~Called(i)

\* a record with email null and no age was validated without an error and
\* without a call of the two functions, which both reject such a value
C23_Witness ==
  /\ thrown = NoError
  /\ Get(data, "id") = Str("1")
  /\ hasOwnProperty(data, "email") /\ Get(data, "email") = null
  /\ ~hasOwnProperty(data, "age")
  /\ Invoke(Fn("hasAt"), null) # Bool(TRUE)
  /\ Invoke(Fn("isAdult"), undefined) # Bool(TRUE)
  /\ invoked = <<>>


(***************************************************************************)
(* Two callers of one DynamoORM instance: each has its own call in flight, *)
(* and the steps of the two calls interleave at the awaits                 *)
(***************************************************************************)
Callers == {1, 2}

\* the records, keys and update maps the two callers pass
sharedItems ==
  { <<[key |-> "id", val |-> Str("1")], [key |-> "name", val |-> Str("Jo")]>>,
    <<[key |-> "id", val |-> Str("2")], [key |-> "name", val |-> Str("Jo")],
      [key |-> "createdAt", val |-> Date(0)]>>,
    <<[key |-> "id", val |-> Str("3")], [key |-> "name", val |-> Str("J")]>> }

sharedKeys == {<<[key |-> "id", val |-> v]>> : v \in {Str("1"), Str("2")}}

sharedUpdates ==
  { <<[key |-> "name", val |-> Str("Adam")]>>,
    <<[key |-> "age", val |-> Num(31)]>> }

InitConcurrent ==
  /\ schema = userSchema
  /\ config \in Configs
  /\ calls = [c \in Callers |-> Idle]
  /\ clock = 0
  /\ data = <<>>
  /\ thrown = NoError
  /\ wire = <<>>
  /\ native = <<>>
  /\ compiled = <<>>
  /\ position = 0
  /\ invoked = <<>>
  /\ heap = [c \in Callers |-> NoObject]

NextConcurrent ==
  \E c \in Callers :
    \/ \E item \in sharedItems : orm_create(c, item)
    \/ orm_create_resume(c)
    \/ \E key \in sharedKeys : orm_get(c, key)
    \/ orm_get_resume(c)
    \/ \E key \in sharedKeys, updates \in sharedUpdates : orm_update(c, key, updates)
    \/ orm_update_resume(c)
    \/ \E item \in sharedItems : create(c, item)
    \/ create_resume(c)
    \/ caller_resume(c)

SpecConcurrent == InitConcurrent /\ [][NextConcurrent]_vars


(***************************************************************************)
(* The record object the caller passes to create                           *)
(***************************************************************************)
\* the calls of create, begun and not yet handed back to the caller
Creating == {c \in DOMAIN calls : calls[c].op = "create"}

\* C26: from the moment create is called until the caller has its outcome,
\* whether create returned, threw a ValidationError or threw the error of
\* the transport, the record object passed has the fields and values it
\* was passed with.
C26_InputUnmodified ==
  \A c \in Creating : heap[c] = <<calls[c].args.item>>

\* a create of the refactored class returned a record with two defaults
\* filled in, and the record passed still lacks both fields
C26_Witness ==
  \E c \in Creating :
    /\ calls[c].cls = "orm"
    /\ calls[c].pc = "done"
    /\ calls[c].outcome.kind = "return"
    /\ hasOwnProperty(calls[c].outcome.value.v, "isActive")
    /\ hasOwnProperty(calls[c].outcome.value.v, "createdAt")
    /\ heap[c] # NoObject
    /\ ~hasOwnProperty(heap[c][1], "isActive")
    /\ ~hasOwnProperty(heap[c][1], "createdAt")
    /\ heap[c][1] = calls[c].args.item


\* two calls of the same operation with the same arguments, which filled in
\* the same defaults
SameCall(a, b) ==
  /\ a.pc # "idle" /\ b.pc # "idle"
  /\ a.cls = b.cls
  /\ a.op = b.op
  /\ a.args = b.args
  /\ a.locals = b.locals

\* the key a request carries is the key its own call was given
OwnKey(call) ==
  LET input == call.requests[1].input
  IN  CASE call.op = "create" -> Get(input.Item, "id") = [S |-> Get(call.args.item, "id").v]
        [] call.op \in {"get", "update"} -> input.Key = marshall(Obj(call.args.key), FALSE).v
        [] OTHER -> TRUE

\* the request and the outcome of a call follow from its own arguments and
\* its own response
C24_Determined ==
  /\ \A c \in DOMAIN calls :
       calls[c].requests # <<>>
         => /\ Len(calls[c].requests) = 1
            /\ calls[c].requests[1].input.TableName = config.tableName
            /\ OwnKey(calls[c])
  /\ \A c, d \in DOMAIN calls :
       SameCall(calls[c], calls[d])
         => /\ calls[c].requests = <<>> <=> calls[d].requests = <<>>
            /\ (calls[c].requests # <<>> /\ calls[d].requests # <<>>)
                 => calls[c].requests = calls[d].requests
            /\ (calls[c].pc = "done" /\ calls[d].pc = "done"
                  /\ calls[c].response = calls[d].response)
                 => calls[c].outcome = calls[d].outcome

\* a step is a step of one call: it leaves the schema and the table
\* descriptor as they are, and the call and the record of every other
\* caller as they are
C24_Frame ==
  /\ schema' = schema
  /\ config' = config
  /\ \E c \in DOMAIN calls :
       \A d \in DOMAIN calls \ {c} : calls'[d] = calls[d] /\ heap'[d] = heap[d]

\* C24: under every interleaving of the calls of two callers, the request
\* and the outcome of a call are determined by its own arguments, the
\* schema, the table descriptor and its own response; no step changes the
\* schema or the table descriptor, and no step of one call changes anything
\* of the other call.
C24_CallsIndependent ==
  /\ []C24_Determined
  /\ [][C24_Frame]_vars

\* two creates of the refactored class await the transport at the same
\* time, each with the record of its own caller in its request
C24_Witness ==
  /\ calls[1].pc = "awaiting" /\ calls[2].pc = "awaiting"
  /\ calls[1].cls = "orm" /\ calls[2].cls = "orm"
  /\ calls[1].op = "create" /\ calls[2].op = "create"
  /\ Get(calls[1].args.item, "id") = Str("1")
  /\ Get(calls[2].args.item, "id") = Str("2")
  /\ Get(calls[1].requests[1].input.Item, "id") = [S |-> "1"]
  /\ Get(calls[2].requests[1].input.Item, "id") = [S |-> "2"]


\* C27: the expression of every update request sent assigns at least one
\* field: a call of update with an empty map sends no request whose
\* expression is SET with nothing after it.
C27_UpdateAssignsSomething ==
  \A c \in Requested("update") :
    /\ calls[c].requests[1].input.UpdateExpression # "SET "
    /\ Len(calls[c].requests[1].input.ExpressionAttributeNames) >= 1


(***************************************************************************)
(* Placeholders of the requests of update, query and scan                  *)
(***************************************************************************)
\* the placeholders the text compiled from a predicate list refers to
RefsOf(conditions) ==
  [text |-> join([i \in 1..Len(conditions) |-> Fragment(conditions[i], i - 1)], " AND "),
   names |-> {"#field" \o ToString(i - 1) : i \in 1..Len(conditions)},
   values |-> UNION {{a.key : a \in Allocated(conditions[i], i - 1)} : i \in 1..Len(conditions)}]

NoRefs == [text |-> "", names |-> {}, values |-> {}]

\* the texts of the expressions of a request with the placeholders they
\* refer to: the expression with n assignments or selected fields refers to
\* the placeholders numbered 0..n-1, a compiled predicate list to those of
\* its fragments, the key condition of src/index.ts to #pk and :pkValue
References(call) ==
  LET options == call.args.options
      filter == RefsOf(Opt(options.filterExpression))
      select == Opt(options.select)
      projection ==
        [text |-> join([i \in 1..Len(select) |-> "#select" \o ToString(i - 1)], ", "),
         names |-> {"#select" \o ToString(i - 1) : i \in 1..Len(select)},
         values |-> {}]
  IN  CASE call.op = "update" ->
             LET n == Len(call.args.updates)
             IN  <<[text |-> "SET " \o join([i \in 1..n |-> "#field" \o ToString(i - 1)
                                                 \o " = :value" \o ToString(i - 1)], ", "),
                    names |-> {"#field" \o ToString(i - 1) : i \in 1..n},
                    values |-> {":value" \o ToString(i - 1) : i \in 1..n}]>>
        [] call.op = "query" /\ call.cls = "orm" -> <<RefsOf(call.args.conditions)>>
        [] call.op = "query" ->
             <<[text |-> "#pk = :pkValue", names |-> {"#pk"}, values |-> {":pkValue"}],
               filter, projection>>
        [] call.op = "scan" /\ call.cls = "orm" -> <<NoRefs>>
        [] call.op = "scan" -> <<filter, projection>>

\* the texts of the expressions a request carries, "" for one it leaves out
Texts(call) ==
  LET input == call.requests[1].input
      text(member) == IF member = undefined THEN "" ELSE member.v
  IN  CASE call.op = "update" -> <<input.UpdateExpression>>
        [] call.op = "query" /\ call.cls = "orm" -> <<input.KeyConditionExpression>>
        [] call.op = "query" ->
             <<input.KeyConditionExpression, text(input.FilterExpression),
               text(input.ProjectionExpression)>>
        [] call.op = "scan" /\ call.cls = "orm" -> <<"">>
        [] call.op = "scan" ->
             <<text(input.FilterExpression), text(input.ProjectionExpression)>>

\* the name placeholders and the value placeholders a request carries
SentNames(call) ==
  LET input == call.requests[1].input
  IN  CASE call.op = "scan" /\ call.cls = "orm" -> {}
        [] call.op = "scan" -> Keys(Opt(input.ExpressionAttributeNames))
        [] OTHER -> Keys(input.ExpressionAttributeNames)

SentValues(call) ==
  LET input == call.requests[1].input
  IN  CASE call.op = "scan" /\ call.cls = "orm" -> {}
        [] call.op = "scan" \/ (call.op = "query" /\ call.cls = "orm") ->
             Keys(Opt(input.ExpressionAttributeValues))
        [] OTHER -> Keys(input.ExpressionAttributeValues)

\* C25: in every request of update, query and scan the expressions are the
\* texts built over their placeholders, every placeholder a text refers to
\* has an entry in the name table or the value table the request carries,
\* and every entry of the two tables is referred to by one of the texts.
C25_PlaceholdersConsistent ==
  \A c \in Requested("update") \cup Requested("query") \cup Requested("scan") :
    LET refs == References(calls[c])
    IN  /\ Texts(calls[c]) = [i \in 1..Len(refs) |-> refs[i].text]
        /\ UNION {refs[i].names : i \in 1..Len(refs)} = SentNames(calls[c])
        /\ UNION {refs[i].values : i \in 1..Len(refs)} = SentValues(calls[c])

====
